---- MODULE Spec2Model ----
(***************************************************************************)
(* State-machine model of the financials application of SINDIPRO-Backend:  *)
(* the chart of accounts (FinancialMainAccount), the account ledger        *)
(* (FinancialAccountTransaction), revenue accounts and account balances,   *)
(* as implemented by src/financials/views.py, serializers.py and models.py.*)
(*                                                                         *)
(* Amounts are integers (hundredths of the currency unit).  Period strings *)
(* ("YYYY", "YYYY-MM") are sequences of one-character strings.  An optional*)
(* input (a key that may be absent from the request body) is a sequence of *)
(* length at most one: <<>> is "absent", <<v>> is "supplied with value v". *)
(***************************************************************************)
EXTENDS Integers, Sequences, FiniteSets, TLC

(* ------------------------------ bounds --------------------------------- *)
MaxAccounts == 2
MaxTxns == 2
MaxRevenues == 2
MaxBalances == 2
MaxReqs == 2
MaxCharges == 2
MaxUnits == 3
MaxExpenses == 2

(* ----------------------- HTTP status codes used ------------------------ *)
HTTP_200_OK == 200
HTTP_201_CREATED == 201
HTTP_400_BAD_REQUEST == 400
HTTP_404_NOT_FOUND == 404
HTTP_500_INTERNAL_SERVER_ERROR == 500

(* ------------------------------ domains -------------------------------- *)
None == <<>>
Some(v) == <<v>>
Opt(S) == {None} \cup {Some(v) : v \in S}
Given(o) == o # None
Val(o) == o[1]
\* dict.get(key, default) on the validated data of a partial update
GetOr(o, default) == IF Given(o) THEN Val(o) ELSE default

Buildings == {1, 2}
Codes == {"1.0", "2.0"}
AccountIds == 1..MaxAccounts
TxnIds == 1..MaxTxns
Amounts == {-1, 1, 2}
ActualAmounts == Amounts \cup {0}
NoParent == 0
BalanceTypes == {"ordinary", "extraordinary"}
Months == {"2025-01", "2025-02"}

VARIABLES
    accounts,       \* table financials_main_account: id -> row
    nextAccountId,  \* its auto-increment primary key
    transactions,   \* table of FinancialAccountTransaction: id -> row
    nextTxnId,      \* its auto-increment primary key
    revenues,       \* table financials_revenue_account: id -> row
    nextRevenueId,
    balances,       \* table financials_account_balance: id -> row
    nextBalanceId,
    charges,        \* table financials_additional_charge: id -> row
    nextChargeId,
    units,          \* table of Unit, owned by building management: id -> row
    expenses,       \* table financials_expense_entry: id -> row
    nextExpenseId,
    reqs,           \* requests in flight: request -> position and locals
    resp,           \* the last request served: its body, the row it found, its response
    postSnap        \* history: every account's actual_amount before the last post

vars == <<accounts, nextAccountId, transactions, nextTxnId, revenues, nextRevenueId,
          balances, nextBalanceId, charges, nextChargeId, units, expenses,
          nextExpenseId, reqs, resp, postSnap>>

registryVars == <<accounts, nextAccountId>>
ledgerVars == <<transactions, nextTxnId>>
revenueVars == <<revenues, nextRevenueId>>
balanceVars == <<balances, nextBalanceId>>
chargeVars == <<charges, nextChargeId>>
expenseVars == <<expenses, nextExpenseId>>

\* A table is a function from the ids of its rows; these are the row writes.
Upsert(table, id, row) == [k \in DOMAIN table \cup {id} |-> IF k = id THEN row ELSE table[k]]
Remove(table, id) == [k \in DOMAIN table \ {id} |-> table[k]]
EmptyTable == [k \in {} |-> 0]

\* Placeholders for "no request body" and "no row"
NoData == [account_id |-> None, amount |-> None, reference_month |-> None]
NoTxn == [account_id |-> 0, amount |-> 0, reference_month |-> ""]
NoAccount == [building |-> 0, code |-> "", parent |-> NoParent, actual_amount |-> 0,
              balance_type |-> ""]
NoSnap == [tid |-> 0, actual |-> EmptyTable]
Actuals(accs) == [a \in DOMAIN accs |-> accs[a].actual_amount]

(* ======================= Account registry ============================== *)
\* The body of POST /account/ and of a partial PUT /account/<id>/.
AccountData == [building : Buildings, code : Codes, parent : Opt(AccountIds),
                actual_amount : ActualAmounts, balance_type : Opt(BalanceTypes)]
PartialAccountData == [building : Opt(Buildings), code : Opt(Codes),
                       parent : Opt(AccountIds \cup {NoParent}),
                       actual_amount : Opt(ActualAmounts), balance_type : Opt(BalanceTypes)]

\* unique_together = ('building', 'code'): another row already holds the pair.
CodeTaken(accs, self, building, code) ==
    \E a \in DOMAIN accs : a # self /\ accs[a].building = building /\ accs[a].code = code

\* The foreign key parent -> financials_main_account: NULL or an existing row.
ParentExists(accs, parent) == parent = NoParent \/ parent \in DOMAIN accs

\* The row FinancialMainAccountSerializer.create inserts.
NewAccountRow(data) ==
    [building |-> data.building, code |-> data.code,
     parent |-> GetOr(data.parent, NoParent),
     actual_amount |-> data.actual_amount,
     balance_type |-> GetOr(data.balance_type, "ordinary")]

\* The row ModelSerializer.update saves: supplied fields set, the others kept.
UpdatedAccountRow(row, data) ==
    [building |-> GetOr(data.building, row.building),
     code |-> GetOr(data.code, row.code),
     parent |-> GetOr(data.parent, row.parent),
     actual_amount |-> GetOr(data.actual_amount, row.actual_amount),
     balance_type |-> GetOr(data.balance_type, row.balance_type)]

\* variant: the table without its unique_together constraint
AccountRowAccepted_NoUnique(accs, self, row) ==
    ParentExists(Upsert(accs, self, row), row.parent)

\* The database's verdict on an INSERT or UPDATE of an account row.
AccountRowAccepted(accs, self, row) ==
    /\ ~CodeTaken(accs, self, row.building, row.code)
    /\ ParentExists(Upsert(accs, self, row), row.parent)

\* The response to an account request: the row it tried to write is kept.
AccountResp(op, id, status, row) ==
    [op |-> op, id |-> id, status |-> status, data |-> NoData, prev |-> NoTxn, row |-> row]

\* POST /account/
CreateAccount(data) ==
    /\ nextAccountId <= MaxAccounts
    /\ LET row == NewAccountRow(data)
           ok == AccountRowAccepted(accounts, nextAccountId, row)
       IN  /\ accounts' = IF ok THEN Upsert(accounts, nextAccountId, row) ELSE accounts
           /\ nextAccountId' = IF ok THEN nextAccountId + 1 ELSE nextAccountId
           /\ resp' = AccountResp("createAccount", IF ok THEN nextAccountId ELSE 0,
                                  IF ok THEN HTTP_201_CREATED
                                  ELSE HTTP_500_INTERNAL_SERVER_ERROR, row)
    /\ postSnap' = NoSnap
    /\ UNCHANGED <<ledgerVars, revenueVars, balanceVars, chargeVars, units, expenseVars, reqs>>

\* PUT /account/<id>/ (partial update)
UpdateAccount(id, data) ==
    /\ IF id \notin DOMAIN accounts
       THEN /\ accounts' = accounts
            /\ resp' = AccountResp("updateAccount", id, HTTP_404_NOT_FOUND, NoAccount)
       ELSE LET row == UpdatedAccountRow(accounts[id], data)
                ok == AccountRowAccepted(accounts, id, row)
            IN  /\ accounts' = IF ok THEN Upsert(accounts, id, row) ELSE accounts
                /\ resp' = AccountResp("updateAccount", id,
                                       IF ok THEN HTTP_200_OK
                                       ELSE HTTP_500_INTERNAL_SERVER_ERROR, row)
    /\ postSnap' = NoSnap
    /\ UNCHANGED <<nextAccountId, ledgerVars, revenueVars, balanceVars, chargeVars, units, expenseVars, reqs>>

\* What the store does with the transactions of an account that is deleted:
\* remove them with it, refuse the deletion, or leave them where they are.
TransactionOnDelete == {"CASCADE", "PROTECT", "DO_NOTHING"}

\* The accounts a deletion of the accounts in set collects: parent is
\* on_delete=CASCADE, so every sub-account goes with its parent.
RECURSIVE Collected(_, _)
Collected(accs, set) ==
    LET subs == {a \in DOMAIN accs : accs[a].parent \in set}
    IN  IF subs \subseteq set THEN set ELSE Collected(accs, set \cup subs)

\* The transactions posted to one of the accounts in set.
PostedTo(txns, set) == {t \in DOMAIN txns : txns[t].account_id \in set}

\* RevenueAccount.account is on_delete=CASCADE: the revenue accounts of a
\* deleted account are deleted with it.
RevenuesAfterDelete(revs, gone) ==
    [r \in {k \in DOMAIN revs : revs[k].account_id \notin gone} |-> revs[r]]

\* The response to DELETE /account/<id>/: a message only. prev keeps, as
\* history, the transactions that were posted to the collected accounts.
DeleteAccountResp(id, status, posted) ==
    [op |-> "deleteAccount", id |-> id, status |-> status,
     data |-> [message |-> IF status = HTTP_200_OK
                           THEN "Financial account deleted successfully" ELSE ""],
     prev |-> [transactions |-> posted], row |-> NoAccount]

\* DELETE /account/<id>/ : account.delete() with no look at what refers to
\* the account; a refusal of the store is an unhandled exception.
DeleteAccount(id, on_delete) ==
    /\ IF id \notin DOMAIN accounts
       THEN /\ UNCHANGED <<accounts, transactions, revenues>>
            /\ resp' = DeleteAccountResp(id, HTTP_404_NOT_FOUND, {})
       ELSE LET gone == Collected(accounts, {id})
                posted == PostedTo(transactions, gone)
            IN  IF on_delete = "PROTECT" /\ posted # {}
                THEN /\ UNCHANGED <<accounts, transactions, revenues>>
                     /\ resp' = DeleteAccountResp(id, HTTP_500_INTERNAL_SERVER_ERROR, posted)
                ELSE /\ accounts' = [a \in DOMAIN accounts \ gone |-> accounts[a]]
                     /\ revenues' = RevenuesAfterDelete(revenues, gone)
                     /\ transactions' = IF on_delete = "CASCADE"
                                        THEN [t \in DOMAIN transactions \ posted |->
                                                  transactions[t]]
                                        ELSE transactions
                     /\ resp' = DeleteAccountResp(id, HTTP_200_OK, posted)
    /\ postSnap' = NoSnap
    /\ UNCHANGED <<nextAccountId, nextTxnId, nextRevenueId, balanceVars, chargeVars,
                   units, expenseVars, reqs>>

(* ============================ Ledger =================================== *)
\* The body of POST /account-transaction/ (every field supplied) and of a
\* partial PUT /account-transaction/<id>/ (any field may be absent).
PartialTxnData == [account_id : Opt(AccountIds), amount : Opt(Amounts),
                   reference_month : Opt(Months)]
TxnData == {d \in PartialTxnData :
                Given(d.account_id) /\ Given(d.amount) /\ Given(d.reference_month)}


\* A ledger request: its kind, its position in the handler, and the model
\* instances the handler holds in memory.
NewReq(kind, tid, data) ==
    [kind |-> kind, pc |-> IF kind = "post" THEN "create_row" ELSE "load",
     tid |-> tid, data |-> data, inst |-> NoTxn,
     old_account |-> NoAccount, new_account |-> NoAccount, status |-> 0,
     crashed |-> FALSE]
IdleReq == [NewReq("none", 0, NoData) EXCEPT !.pc = "idle"]

Finish(w, r, status) == [w |-> w, r |-> [r EXCEPT !.pc = "done", !.status = status]]

\* Model.save() of an in-memory account: every column is written from the copy.
SaveAccount(w, id, row) == [w EXCEPT !.accounts = Upsert(w.accounts, id, row)]

\* account.actual_amount += delta on the in-memory copy
Adjusted(row, delta) == [row EXCEPT !.actual_amount = @ + delta]

\* variant: the row is inserted without the foreign key being checked
PostStep_Unchecked(w, r) ==
    CASE r.pc = "create_row" ->
            LET row == [account_id |-> Val(r.data.account_id),
                        amount |-> Val(r.data.amount),
                        reference_month |-> Val(r.data.reference_month)]
            IN  [w |-> [w EXCEPT !.transactions = Upsert(@, w.nextTxnId, row),
                                 !.nextTxnId = @ + 1],
                 r |-> [r EXCEPT !.tid = w.nextTxnId, !.inst = row,
                                 !.pc = "load_account"]]
      [] r.pc = "load_account" ->
            IF r.inst.account_id \notin DOMAIN w.accounts
            THEN Finish(w, r, HTTP_500_INTERNAL_SERVER_ERROR)
            ELSE [w |-> w,
                  r |-> [r EXCEPT !.old_account = w.accounts[r.inst.account_id],
                                  !.pc = "save_account"]]
      [] r.pc = "save_account" ->
            Finish(SaveAccount(w, r.inst.account_id, Adjusted(r.old_account, r.inst.amount)),
                   r, HTTP_201_CREATED)

\* FinancialAccountTransactionSerializer.create, one database query per step.
PostStep(w, r) ==
    CASE r.pc = "create_row" ->
            IF Val(r.data.account_id) \notin DOMAIN w.accounts
            THEN Finish(w, r, HTTP_500_INTERNAL_SERVER_ERROR)
            ELSE LET row == [account_id |-> Val(r.data.account_id),
                             amount |-> Val(r.data.amount),
                             reference_month |-> Val(r.data.reference_month)]
                 IN  [w |-> [w EXCEPT !.transactions = Upsert(@, w.nextTxnId, row),
                                      !.nextTxnId = @ + 1],
                      r |-> [r EXCEPT !.tid = w.nextTxnId, !.inst = row,
                                      !.pc = "load_account"]]
      [] r.pc = "load_account" ->
            IF r.inst.account_id \notin DOMAIN w.accounts
            THEN Finish(w, r, HTTP_500_INTERNAL_SERVER_ERROR)
            ELSE [w |-> w,
                  r |-> [r EXCEPT !.old_account = w.accounts[r.inst.account_id],
                                  !.pc = "save_account"]]
      [] r.pc = "save_account" ->
            Finish(SaveAccount(w, r.inst.account_id, Adjusted(r.old_account, r.inst.amount)),
                   r, HTTP_201_CREATED)

\* new_account_id and new_amount of FinancialAccountTransactionSerializer.update
NewAccountId(r) == GetOr(r.data.account_id, r.inst.account_id)
NewAmount(r) == GetOr(r.data.amount, r.inst.amount)

\* variant: the old amount is added back instead of taken out
ReverseOld_Added(r) == Adjusted(r.old_account, r.inst.amount)
\* variant: the new account gets the difference instead of the new amount
ApplyNew_Difference(r) == Adjusted(r.new_account, NewAmount(r) - r.inst.amount)

\* The three balance adjustments of FinancialAccountTransactionSerializer.update
ReverseOld(r) == Adjusted(r.old_account, 0 - r.inst.amount)
ApplyNew(r) == Adjusted(r.new_account, NewAmount(r))
ApplyDifference(r) == Adjusted(r.old_account, NewAmount(r) - r.inst.amount)

\* The transaction row that update saves
UpdatedTxnRow(r) ==
    [account_id |-> NewAccountId(r), amount |-> NewAmount(r),
     reference_month |-> GetOr(r.data.reference_month, r.inst.reference_month)]

\* account_transaction_detail_view: the transaction is loaded with its account
\* (select_related) before PUT or DELETE is served.
LoadStep(w, r, next) ==
    IF r.tid \notin DOMAIN w.transactions
    THEN Finish(w, r, HTTP_404_NOT_FOUND)
    ELSE LET inst == w.transactions[r.tid]
         IN  [w |-> w,
              r |-> [r EXCEPT !.inst = inst, !.old_account = w.accounts[inst.account_id],
                              !.pc = next]]

\* PUT /account-transaction/<id>/, one database query per step.
UpdateStep(w, r) ==
    CASE r.pc = "load" -> LoadStep(w, r, "resolve")
      [] r.pc = "resolve" ->
            IF NewAccountId(r) = r.inst.account_id
            THEN [w |-> w, r |-> [r EXCEPT !.pc = "save_same"]]
            ELSE IF NewAccountId(r) \notin DOMAIN w.accounts
            THEN Finish(w, r, HTTP_500_INTERNAL_SERVER_ERROR)
            ELSE [w |-> w, r |-> [r EXCEPT !.new_account = w.accounts[NewAccountId(r)],
                                           !.pc = "save_old"]]
      [] r.pc = "save_old" ->
            [w |-> SaveAccount(w, r.inst.account_id, ReverseOld(r)),
             r |-> [r EXCEPT !.pc = "save_new"]]
      [] r.pc = "save_new" ->
            [w |-> SaveAccount(w, NewAccountId(r), ApplyNew(r)),
             r |-> [r EXCEPT !.pc = "save_row"]]
      [] r.pc = "save_same" ->
            [w |-> SaveAccount(w, r.inst.account_id, ApplyDifference(r)),
             r |-> [r EXCEPT !.pc = "save_row"]]
      [] r.pc = "save_row" ->
            Finish([w EXCEPT !.transactions = Upsert(@, r.tid, UpdatedTxnRow(r))],
                   r, HTTP_200_OK)

\* DELETE /account-transaction/<id>/, one database query per step.
DeleteStep(w, r) ==
    CASE r.pc = "load" -> LoadStep(w, r, "save_account")
      [] r.pc = "save_account" ->
            [w |-> SaveAccount(w, r.inst.account_id, ReverseOld(r)),
             r |-> [r EXCEPT !.pc = "delete_row"]]
      [] r.pc = "delete_row" ->
            Finish([w EXCEPT !.transactions = Remove(@, r.tid)], r, HTTP_200_OK)

LedgerStep(w, r) ==
    CASE r.kind = "post" -> PostStep(w, r)
      [] r.kind = "update" -> UpdateStep(w, r)
      [] r.kind = "delete" -> DeleteStep(w, r)

\* A request served with no other request interleaved.
RECURSIVE Run(_, _)
Run(w, r) == IF r.pc = "done" THEN [w |-> w, r |-> r]
             ELSE LET s == LedgerStep(w, r) IN Run(s.w, s.r)

World == [accounts |-> accounts, transactions |-> transactions, nextTxnId |-> nextTxnId]

SetWorld(w) ==
    /\ accounts' = w.accounts
    /\ transactions' = w.transactions
    /\ nextTxnId' = w.nextTxnId

\* POST /account-transaction/
PostTransaction(data) ==
    /\ nextTxnId <= MaxTxns
    /\ LET out == Run(World, NewReq("post", 0, data))
       IN  /\ SetWorld(out.w)
           /\ resp' = [op |-> "postTransaction", id |-> out.r.tid,
                       status |-> out.r.status, data |-> data, prev |-> NoTxn, row |-> NoAccount]
           /\ postSnap' = IF out.r.status = HTTP_201_CREATED
                          THEN [tid |-> out.r.tid, actual |-> Actuals(accounts)]
                          ELSE NoSnap
    /\ UNCHANGED <<nextAccountId, revenueVars, balanceVars, chargeVars, units, expenseVars, reqs>>

\* PUT /account-transaction/<id>/
UpdateTransaction(tid, data) ==
    /\ LET out == Run(World, NewReq("update", tid, data))
       IN  /\ SetWorld(out.w)
           /\ resp' = [op |-> "updateTransaction", id |-> tid,
                       status |-> out.r.status, data |-> data, prev |-> out.r.inst, row |-> NoAccount]
    /\ postSnap' = NoSnap
    /\ UNCHANGED <<nextAccountId, revenueVars, balanceVars, chargeVars, units, expenseVars, reqs>>

\* DELETE /account-transaction/<id>/
DeleteTransaction(tid) ==
    /\ LET out == Run(World, NewReq("delete", tid, NoData))
       IN  /\ SetWorld(out.w)
           /\ resp' = [op |-> "deleteTransaction", id |-> tid,
                       status |-> out.r.status, data |-> NoData, prev |-> out.r.inst, row |-> NoAccount]
           /\ postSnap' = IF out.r.status = HTTP_200_OK /\ postSnap.tid = tid
                          THEN postSnap ELSE NoSnap
    /\ UNCHANGED <<nextAccountId, revenueVars, balanceVars, chargeVars, units, expenseVars, reqs>>

(* ------------------- ledger requests served concurrently --------------- *)
\* Each request is its own worker; every ORM call is one autocommitted query,
\* so the queries of two requests interleave in any order.
Reqs == 1..MaxReqs

Running(q) == reqs[q].pc \notin {"idle", "done"} /\ ~reqs[q].crashed

BeginPost(q, data) ==
    /\ reqs[q].pc = "idle"
    /\ reqs' = [reqs EXCEPT ![q] = NewReq("post", 0, data)]
    /\ UNCHANGED <<registryVars, ledgerVars, revenueVars, balanceVars, chargeVars, units, expenseVars, resp, postSnap>>

BeginUpdate(q, tid, data) ==
    /\ reqs[q].pc = "idle"
    /\ reqs' = [reqs EXCEPT ![q] = NewReq("update", tid, data)]
    /\ UNCHANGED <<registryVars, ledgerVars, revenueVars, balanceVars, chargeVars, units, expenseVars, resp, postSnap>>

BeginDelete(q, tid) ==
    /\ reqs[q].pc = "idle"
    /\ reqs' = [reqs EXCEPT ![q] = NewReq("delete", tid, NoData)]
    /\ UNCHANGED <<registryVars, ledgerVars, revenueVars, balanceVars, chargeVars, units, expenseVars, resp, postSnap>>

\* The next query of request q.
StepRequest(q) ==
    /\ Running(q)
    /\ LET s == LedgerStep(World, reqs[q])
       IN  /\ SetWorld(s.w)
           /\ reqs' = [reqs EXCEPT ![q] = s.r]
    /\ UNCHANGED <<nextAccountId, revenueVars, balanceVars, chargeVars, units, expenseVars, resp, postSnap>>

\* The worker of request q dies between two queries; what it wrote stays.
CrashRequest(q) ==
    /\ Running(q)
    /\ reqs' = [reqs EXCEPT ![q].crashed = TRUE]
    /\ UNCHANGED <<registryVars, ledgerVars, revenueVars, balanceVars, chargeVars, units, expenseVars, resp, postSnap>>

(* ========================= Revenue accounts ============================ *)
EmptyStr == <<>>
Y2024 == <<"2", "0", "2", "4">>
Y2025 == <<"2", "0", "2", "5">>
M2024_06 == <<"2", "0", "2", "4", "-", "0", "6">>
Periods == {Y2024, Y2025, M2024_06}
RevenueIds == 1..MaxRevenues

\* Python compares str values code point by code point; a proper prefix is
\* the smaller string.  Period strings are made of digits and "-".
Ord(c) == CASE c = "-" -> 45
            [] c = "0" -> 48 [] c = "1" -> 49 [] c = "2" -> 50 [] c = "3" -> 51
            [] c = "4" -> 52 [] c = "5" -> 53 [] c = "6" -> 54 [] c = "7" -> 55
            [] c = "8" -> 56 [] c = "9" -> 57

RECURSIVE StrLess(_, _)
StrLess(a, b) ==
    IF b = <<>> THEN FALSE
    ELSE IF a = <<>> THEN TRUE
    ELSE IF Head(a) # Head(b) THEN Ord(Head(a)) < Ord(Head(b))
    ELSE StrLess(Tail(a), Tail(b))

StrLeq(a, b) == a = b \/ StrLess(a, b)
MonthlyAmounts == {100}

\* The body of POST /revenue/
RevenueData == [building : Buildings, account_id : AccountIds,
                monthly_amount : MonthlyAmounts,
                start_month : Periods, end_month : Periods,
                fiscal_year_start : Periods, fiscal_year_end : Periods]

RevenueResp(op, id, status, body) ==
    [op |-> op, id |-> id, status |-> status, data |-> body, prev |-> NoTxn,
     row |-> NoAccount]

\* RevenueAccountSerializer.create: is_extended takes the model's default.
NewRevenueRow(data) ==
    [building |-> data.building, account_id |-> data.account_id,
     monthly_amount |-> data.monthly_amount,
     start_month |-> data.start_month, end_month |-> data.end_month,
     fiscal_year_start |-> data.fiscal_year_start,
     fiscal_year_end |-> data.fiscal_year_end,
     is_extended |-> FALSE]

\* POST /revenue/ : validate_accountId refuses an account that does not exist.
CreateRevenueAccount(data) ==
    /\ nextRevenueId <= MaxRevenues
    /\ LET ok == data.account_id \in DOMAIN accounts
       IN  /\ revenues' = IF ok THEN Upsert(revenues, nextRevenueId, NewRevenueRow(data))
                          ELSE revenues
           /\ nextRevenueId' = IF ok THEN nextRevenueId + 1 ELSE nextRevenueId
           /\ resp' = RevenueResp("createRevenueAccount", IF ok THEN nextRevenueId ELSE 0,
                                  IF ok THEN HTTP_201_CREATED ELSE HTTP_400_BAD_REQUEST,
                                  NoData)
    /\ postSnap' = NoSnap
    /\ UNCHANGED <<registryVars, ledgerVars, balanceVars, chargeVars, units, expenseVars, reqs>>

\* DELETE /revenue/<id>/
DeleteRevenueAccount(id) ==
    /\ revenues' = Remove(revenues, id)
    /\ resp' = RevenueResp("deleteRevenueAccount", id,
                           IF id \in DOMAIN revenues THEN HTTP_200_OK
                           ELSE HTTP_404_NOT_FOUND, NoData)
    /\ postSnap' = NoSnap
    /\ UNCHANGED <<nextRevenueId, registryVars, ledgerVars, balanceVars, chargeVars, units, expenseVars, reqs>>

\* `not extend_to_month`: the key is absent (None) or its value is empty.
NotProvided(o) == o = None \/ Val(o) = EmptyStr

\* variant: the extension does not mark the row
ExtendedRow_Unmarked(row, to) == [row EXCEPT !.end_month = to]

\* variant: a second extension takes the mark away
ExtendedRow_Toggled(row, to) == [row EXCEPT !.end_month = to, !.is_extended = ~@]

\* The row extend_revenue_view saves.
ExtendedRow(row, to) == [row EXCEPT !.end_month = to, !.is_extended = TRUE]

\* POST /revenue/<id>/extend/ with body {"extend_to_month": o}
ExtendRevenue(id, o) ==
    /\ LET status == IF id \notin DOMAIN revenues THEN HTTP_404_NOT_FOUND
                     ELSE IF NotProvided(o) THEN HTTP_400_BAD_REQUEST
                     ELSE HTTP_200_OK
       IN  /\ revenues' = IF status = HTTP_200_OK
                          THEN Upsert(revenues, id, ExtendedRow(revenues[id], Val(o)))
                          ELSE revenues
           /\ resp' = RevenueResp("extendRevenue", id, status, [extend_to_month |-> o])
    /\ postSnap' = NoSnap
    /\ UNCHANGED <<nextRevenueId, registryVars, ledgerVars, balanceVars, chargeVars, units, expenseVars, reqs>>

(* ========================= Account balances ============================ *)
BalanceIds == 1..MaxBalances
BalanceNames == {"", "Reserve fund"}
BalanceValues == {0, 500}

\* The body of POST /account-balance/ and of a partial PUT /account-balance/<id>/
BalanceData == [reference_month : Months, balance : BalanceValues,
                balance_type : Opt(BalanceTypes), balance_name : Opt(BalanceNames)]
PartialBalanceData == [reference_month : Opt(Months), balance : Opt(BalanceValues),
                       balance_type : Opt(BalanceTypes), balance_name : Opt(BalanceNames)]

BalanceResp(op, id, status) ==
    [op |-> op, id |-> id, status |-> status, data |-> NoData, prev |-> NoTxn,
     row |-> NoAccount]

\* AccountBalanceSerializer.validate on the fields that were supplied: the
\* type has been defaulted on create (the field's default), not on a partial
\* update, where validate falls back to 'ordinary' and ''.
BalanceValid(balance_type, balance_name) ==
    ~(GetOr(balance_type, "ordinary") = "extraordinary" /\ GetOr(balance_name, "") = "")

\* The row AccountBalanceSerializer.create inserts.
NewBalanceRow(data) ==
    [reference_month |-> data.reference_month, balance |-> data.balance,
     balance_type |-> GetOr(data.balance_type, "ordinary"),
     balance_name |-> GetOr(data.balance_name, "")]

\* The row AccountBalanceSerializer.update saves: supplied fields are set.
UpdatedBalanceRow(row, data) ==
    [reference_month |-> GetOr(data.reference_month, row.reference_month),
     balance |-> GetOr(data.balance, row.balance),
     balance_type |-> GetOr(data.balance_type, row.balance_type),
     balance_name |-> GetOr(data.balance_name, row.balance_name)]

\* POST /account-balance/
CreateBalance(data) ==
    /\ nextBalanceId <= MaxBalances
    /\ LET ok == BalanceValid(Some(GetOr(data.balance_type, "ordinary")), data.balance_name)
       IN  /\ balances' = IF ok THEN Upsert(balances, nextBalanceId, NewBalanceRow(data))
                          ELSE balances
           /\ nextBalanceId' = IF ok THEN nextBalanceId + 1 ELSE nextBalanceId
           /\ resp' = BalanceResp("createBalance", IF ok THEN nextBalanceId ELSE 0,
                                  IF ok THEN HTTP_201_CREATED ELSE HTTP_400_BAD_REQUEST)
    /\ postSnap' = NoSnap
    /\ UNCHANGED <<registryVars, ledgerVars, revenueVars, chargeVars, units, expenseVars, reqs>>

\* PUT /account-balance/<id>/ (partial update)
UpdateBalance(id, data) ==
    /\ LET status == IF id \notin DOMAIN balances THEN HTTP_404_NOT_FOUND
                     ELSE IF ~BalanceValid(data.balance_type, data.balance_name)
                          THEN HTTP_400_BAD_REQUEST
                     ELSE HTTP_200_OK
       IN  /\ balances' = IF status = HTTP_200_OK
                          THEN Upsert(balances, id, UpdatedBalanceRow(balances[id], data))
                          ELSE balances
           /\ resp' = BalanceResp("updateBalance", id, status)
    /\ postSnap' = NoSnap
    /\ UNCHANGED <<nextBalanceId, registryVars, ledgerVars, revenueVars, chargeVars, units, expenseVars, reqs>>

\* DELETE /account-balance/<id>/
DeleteBalance(id) ==
    /\ balances' = Remove(balances, id)
    /\ resp' = BalanceResp("deleteBalance", id,
                           IF id \in DOMAIN balances THEN HTTP_200_OK
                           ELSE HTTP_404_NOT_FOUND)
    /\ postSnap' = NoSnap
    /\ UNCHANGED <<nextBalanceId, registryVars, ledgerVars, revenueVars, chargeVars, units, expenseVars, reqs>>

(* ===================== float: IEEE-754 binary64 ======================== *)
\* Python's float is a binary64 double: 53 significant bits, every operation
\* rounded to nearest, ties to even.  A natural number of any size is kept as
\* its limbs in base 2^15, least significant first, without leading zeros.
Limb == 2^15
LimbBits == 15
MantissaBits == 53

Rest(a) == IF a = <<>> THEN <<>> ELSE Tail(a)
LimbAt(a, i) == IF i <= Len(a) THEN a[i] ELSE 0

RECURSIVE BNorm(_)
BNorm(a) == IF a # <<>> /\ a[Len(a)] = 0 THEN BNorm(SubSeq(a, 1, Len(a) - 1)) ELSE a

RECURSIVE BFromNat(_)
BFromNat(n) == IF n = 0 THEN <<>> ELSE <<n % Limb>> \o BFromNat(n \div Limb)

RECURSIVE BToNat(_)
BToNat(a) == IF a = <<>> THEN 0 ELSE Head(a) + Limb * BToNat(Tail(a))

RECURSIVE BAddC(_, _, _)
BAddC(a, b, c) ==
    IF a = <<>> /\ b = <<>> THEN BFromNat(c)
    ELSE LET s == LimbAt(a, 1) + LimbAt(b, 1) + c
         IN  <<s % Limb>> \o BAddC(Rest(a), Rest(b), s \div Limb)
BAdd(a, b) == BAddC(a, b, 0)

\* a - b for a >= b
RECURSIVE BSubB(_, _, _)
BSubB(a, b, w) ==
    IF a = <<>> THEN <<>>
    ELSE LET d == a[1] - LimbAt(b, 1) - w
         IN  <<(d + Limb) % Limb>> \o BSubB(Tail(a), Rest(b), IF d < 0 THEN 1 ELSE 0)
BSub(a, b) == BNorm(BSubB(a, b, 0))

RECURSIVE BCmpFrom(_, _, _)
BCmpFrom(a, b, i) ==
    IF i = 0 THEN 0
    ELSE IF a[i] # b[i] THEN (IF a[i] < b[i] THEN -1 ELSE 1)
    ELSE BCmpFrom(a, b, i - 1)
BCmp(a, b) == IF Len(a) # Len(b) THEN (IF Len(a) < Len(b) THEN -1 ELSE 1)
              ELSE BCmpFrom(a, b, Len(a))

\* a * k + c for a small k
RECURSIVE BMulSmallC(_, _, _)
BMulSmallC(a, k, c) ==
    IF a = <<>> THEN BFromNat(c)
    ELSE LET p == Head(a) * k + c
         IN  <<p % Limb>> \o BMulSmallC(Tail(a), k, p \div Limb)
BMulSmall(a, k) == BNorm(BMulSmallC(a, k, 0))

BShiftLimbs(a, n) == IF a = <<>> THEN <<>> ELSE [i \in 1..n |-> 0] \o a

RECURSIVE BMul(_, _)
BMul(a, b) ==
    IF a = <<>> \/ b = <<>> THEN <<>>
    ELSE BAdd(BMulSmall(a, Head(b)), BShiftLimbs(BMul(a, Tail(b)), 1))

\* quotient and remainder of a by a small d, from the most significant limb
RECURSIVE BDivSmallFrom(_, _, _, _)
BDivSmallFrom(a, d, i, r) ==
    IF i = 0 THEN [q |-> <<>>, r |-> r]
    ELSE LET cur == r * Limb + a[i]
             low == BDivSmallFrom(a, d, i - 1, cur % d)
         IN  [q |-> low.q \o <<cur \div d>>, r |-> low.r]
BDivSmall(a, d) == LET qr == BDivSmallFrom(a, d, Len(a), 0)
                   IN  [q |-> BNorm(qr.q), r |-> qr.r]

BShl(a, n) == BShiftLimbs(BMulSmall(a, 2^(n % LimbBits)), n \div LimbBits)
BShr(a, n) == BDivSmall(SubSeq(a, n \div LimbBits + 1, Len(a)), 2^(n % LimbBits)).q
BBit(a, i) == (LimbAt(a, i \div LimbBits + 1) \div 2^(i % LimbBits)) % 2
BOdd(a) == BBit(a, 0) = 1
\* the n lowest bits of a are all zero
BLowZero(a, n) ==
    /\ \A i \in 1..(n \div LimbBits) : LimbAt(a, i) = 0
    /\ LimbAt(a, n \div LimbBits + 1) % 2^(n % LimbBits) = 0

RECURSIVE BitLenSmall(_)
BitLenSmall(x) == IF x = 0 THEN 0 ELSE 1 + BitLenSmall(x \div 2)
BitLen(a) == IF a = <<>> THEN 0 ELSE LimbBits * (Len(a) - 1) + BitLenSmall(a[Len(a)])

RECURSIVE TrailingZerosSmall(_)
TrailingZerosSmall(x) == IF x % 2 = 1 THEN 0 ELSE 1 + TrailingZerosSmall(x \div 2)
RECURSIVE TrailingZeros(_)
TrailingZeros(a) == IF a[1] = 0 THEN LimbBits + TrailingZeros(Tail(a))
                    ELSE TrailingZerosSmall(a[1])

\* A double is (-1)^neg * m * 2^e, kept with m odd (zero: m empty, e = 0).
FZero == [neg |-> FALSE, m |-> <<>>, e |-> 0]
FCanon(neg, M, e) ==
    IF M = <<>> THEN FZero
    ELSE LET z == TrailingZeros(M) IN [neg |-> neg, m |-> BShr(M, z), e |-> e + z]

\* M * 2^e (plus a little more when sticky) rounded to 53 significant bits
FRound(neg, M, e, sticky) ==
    LET L == BitLen(M)
    IN  IF L <= MantissaBits THEN FCanon(neg, M, e)
        ELSE LET d == L - MantissaBits
                 q == BShr(M, d)
                 up == /\ BBit(M, d - 1) = 1
                       /\ (sticky \/ ~BLowZero(M, d - 1) \/ BOdd(q))
             IN  FCanon(neg, IF up THEN BAdd(q, <<1>>) ELSE q, e + d)

\* float(Decimal(n) / d): the double nearest to n / d (n >= 0, d small)
FromRatio(n, d) ==
    IF n = 0 THEN FZero
    ELSE LET qr == BDivSmall(BShl(BFromNat(n), 5 * LimbBits), d)
         IN  FRound(FALSE, qr.q, 0 - 5 * LimbBits, qr.r # 0)

FNeg(x) == IF x.m = <<>> THEN x ELSE [x EXCEPT !.neg = ~@]
FAbs(x) == [x EXCEPT !.neg = FALSE]

FAdd(x, y) ==
    LET emin == IF x.e < y.e THEN x.e ELSE y.e
        a == BShl(x.m, x.e - emin)
        b == BShl(y.m, y.e - emin)
        c == BCmp(a, b)
    IN  IF x.neg = y.neg THEN FRound(x.neg, BAdd(a, b), emin, FALSE)
        ELSE IF c = 0 THEN FZero
        ELSE IF c > 0 THEN FRound(x.neg, BSub(a, b), emin, FALSE)
        ELSE FRound(y.neg, BSub(b, a), emin, FALSE)
FSub(x, y) == FAdd(x, FNeg(y))
FMul(x, y) == FRound(x.neg # y.neg, BMul(x.m, y.m), x.e + y.e, FALSE)
FLess(x, y) == FSub(x, y).neg

\* round(x, ndigits) as the integer number of 10^-ndigits units: M is
\* |x|.m * 10^ndigits; the exact binary value is rounded, ties to even.
FScaledRound(x, M) ==
    LET d == 0 - x.e
        q == BShr(M, d)
        up == /\ BBit(M, d - 1) = 1
              /\ (~BLowZero(M, d - 1) \/ BOdd(q))
        n == IF x.e >= 0 THEN BToNat(BShl(M, x.e))
             ELSE BToNat(q) + (IF up THEN 1 ELSE 0)
    IN  IF x.neg THEN 0 - n ELSE n
Round2(x) == FScaledRound(x, BMulSmall(x.m, 100))
Round6(x) == FScaledRound(x, BMulSmall(BMulSmall(x.m, 1000), 1000))

(* ====================== Additional charges ============================= *)
\* Amounts are DecimalField(decimal_places=2) values, kept as a number of
\* cents; reference months of charges and fee queries are "YYYY-MM" strings.
CentScale == 100
M2025_06 == <<"2", "0", "2", "5", "-", "0", "6">>
Y2026 == <<"2", "0", "2", "6">>
ChargeIds == 1..MaxCharges
ChargeMonths == {M2024_06, M2025_06}
ChargeAmounts == {50, 100000}

\* The body of POST /additional-charge/ and of a partial PUT
ChargeData == [building : Buildings, total_amount : ChargeAmounts,
               reference_month : ChargeMonths, active : Opt(BOOLEAN)]
PartialChargeData == [building : Opt(Buildings), total_amount : Opt(ChargeAmounts),
                      reference_month : Opt(ChargeMonths), active : Opt(BOOLEAN)]

ChargeResp(op, id, status) ==
    [op |-> op, id |-> id, status |-> status, data |-> NoData, prev |-> NoTxn,
     row |-> NoAccount]

\* AdditionalChargeSerializer.create: active takes the model's default.
NewChargeRow(data) ==
    [building |-> data.building, total_amount |-> data.total_amount,
     reference_month |-> data.reference_month, active |-> GetOr(data.active, TRUE)]

\* AdditionalChargeSerializer.update: supplied fields are set.
UpdatedChargeRow(row, data) ==
    [building |-> GetOr(data.building, row.building),
     total_amount |-> GetOr(data.total_amount, row.total_amount),
     reference_month |-> GetOr(data.reference_month, row.reference_month),
     active |-> GetOr(data.active, row.active)]

\* POST /additional-charge/
CreateCharge(data) ==
    /\ nextChargeId <= MaxCharges
    /\ charges' = Upsert(charges, nextChargeId, NewChargeRow(data))
    /\ nextChargeId' = nextChargeId + 1
    /\ resp' = ChargeResp("createCharge", nextChargeId, HTTP_201_CREATED)
    /\ postSnap' = NoSnap
    /\ UNCHANGED <<registryVars, ledgerVars, revenueVars, balanceVars, units, expenseVars, reqs>>

\* PUT /additional-charge/<id>/ (partial update)
UpdateCharge(id, data) ==
    /\ charges' = IF id \in DOMAIN charges
                  THEN Upsert(charges, id, UpdatedChargeRow(charges[id], data))
                  ELSE charges
    /\ resp' = ChargeResp("updateCharge", id,
                          IF id \in DOMAIN charges THEN HTTP_200_OK ELSE HTTP_404_NOT_FOUND)
    /\ postSnap' = NoSnap
    /\ UNCHANGED <<nextChargeId, registryVars, ledgerVars, revenueVars, balanceVars, units,
                   expenseVars, reqs>>

\* DELETE /additional-charge/<id>/
DeleteCharge(id) ==
    /\ charges' = Remove(charges, id)
    /\ resp' = ChargeResp("deleteCharge", id,
                          IF id \in DOMAIN charges THEN HTTP_200_OK ELSE HTTP_404_NOT_FOUND)
    /\ postSnap' = NoSnap
    /\ UNCHANGED <<nextChargeId, registryVars, ledgerVars, revenueVars, balanceVars, units,
                   expenseVars, reqs>>

(* ========================= Fee apportionment =========================== *)
\* A unit's ideal_fraction is a decimal, kept as a number of 1/10000.
FractionScale == 10000
UnitIds == 1..MaxUnits
Fractions == {3333, 3334, 4999, 5000}

\* Building management registers a unit.
RegisterUnit(building, fraction) ==
    /\ Cardinality(DOMAIN units) < MaxUnits
    /\ units' = Upsert(units, Cardinality(DOMAIN units) + 1,
                       [building |-> building, ideal_fraction |-> fraction])
    /\ resp' = [op |-> "registerUnit", id |-> building, status |-> HTTP_201_CREATED,
                data |-> NoData, prev |-> NoTxn, row |-> NoAccount]
    /\ postSnap' = NoSnap
    /\ UNCHANGED <<registryVars, ledgerVars, revenueVars, balanceVars, chargeVars,
                   expenseVars, reqs>>

\* Unit.objects.filter(building_id=...): the unit ids, in primary key order
RECURSIVE Ascending(_)
Ascending(S) == IF S = {} THEN <<>>
                ELSE LET least == CHOOSE x \in S : \A y \in S : x <= y
                     IN  <<least>> \o Ascending(S \ {least})
UnitsOf(building) == Ascending({u \in DOMAIN units : units[u].building = building})

FOne == FromRatio(1, 1)
Tolerance == FromRatio(1, 10000)
FloatFraction(u) == FromRatio(units[u].ideal_fraction, FractionScale)

\* sum(float(unit.ideal_fraction) for unit in units), left to right from 0
RECURSIVE FSumFractions(_, _)
FSumFractions(us, acc) ==
    IF us = <<>> THEN acc ELSE FSumFractions(Tail(us), FAdd(acc, FloatFraction(Head(us))))
TotalIdealFraction(building) == FSumFractions(UnitsOf(building), FZero)

\* abs(total - 1.0) < 0.0001
FractionValid(total) == FLess(FAbs(FSub(total, FOne)), Tolerance)

RECURSIVE SumOver(_, _, _)
SumOver(table, ids, field) ==
    IF ids = {} THEN 0
    ELSE LET i == CHOOSE x \in ids : TRUE
         IN  table[i][field] + SumOver(table, ids \ {i}, field)

\* reference_month[:4]
ReferenceYear(month) == SubSeq(month, 1, IF Len(month) < 4 THEN Len(month) ELSE 4)

\* variant: the revenue accounts of every building are taken
BudgetRevenues_AllBuildings(building, month) ==
    {r \in DOMAIN revenues :
        /\ StrLeq(revenues[r].start_month, ReferenceYear(month))
        /\ StrLeq(ReferenceYear(month), revenues[r].end_month)}

\* The revenue accounts whose monthly amount enters total_regular_budget
BudgetRevenues(building, month) ==
    {r \in DOMAIN revenues :
        /\ revenues[r].building = building
        /\ StrLeq(revenues[r].start_month, ReferenceYear(month))
        /\ StrLeq(ReferenceYear(month), revenues[r].end_month)}

\* variant: inactive charges are taken too
MonthCharges_Inactive(building, month) ==
    {c \in DOMAIN charges :
        charges[c].building = building /\ charges[c].reference_month = month}

\* AdditionalCharge.objects.filter(building_id, reference_month, active=True)
MonthCharges(building, month) ==
    {c \in DOMAIN charges :
        /\ charges[c].building = building
        /\ charges[c].reference_month = month
        /\ charges[c].active}

\* One entry of unit_fees; round(x, 2) is kept as the number of cents.
UnitFee(budget, extra, u) ==
    LET regular_fee == FMul(FromRatio(budget, CentScale), FloatFraction(u))
        additional_fee == FMul(FromRatio(extra, CentScale), FloatFraction(u))
    IN  [unitId |-> u, idealFraction |-> FloatFraction(u),
         regularFee |-> Round2(regular_fee),
         additionalFee |-> Round2(additional_fee),
         totalFee |-> Round2(FAdd(regular_fee, additional_fee))]

\* response_data of calculate_fees_view
FeeData(building, month) ==
    LET us == UnitsOf(building)
        total == TotalIdealFraction(building)
        budget == SumOver(revenues, BudgetRevenues(building, month), "monthly_amount")
        extra == SumOver(charges, MonthCharges(building, month), "total_amount")
    IN  [buildingId |-> building, referenceMonth |-> month,
         totalRegularBudget |-> FromRatio(budget, CentScale),
         totalAdditionalCharges |-> FromRatio(extra, CentScale),
         totalMonthlyCollection |-> FromRatio(budget + extra, CentScale),
         totalIdealFraction |-> total,
         isIdealFractionValid |-> FractionValid(total),
         unitFees |-> [i \in 1..Len(us) |-> UnitFee(budget, extra, us[i])]]

\* What calculate_fees_view answers, kept together with the query parameters:
\* 400 without a parameter, 404 for a building without units.
FeeResponse(building, month) ==
    IF building = None \/ NotProvided(month)
    THEN [op |-> "calculateFees", id |-> 0, status |-> HTTP_400_BAD_REQUEST,
          data |-> [building_id |-> building, reference_month |-> month],
          prev |-> NoTxn, row |-> NoAccount]
    ELSE IF UnitsOf(Val(building)) = <<>>
    THEN [op |-> "calculateFees", id |-> Val(building), status |-> HTTP_404_NOT_FOUND,
          data |-> [building_id |-> building, reference_month |-> month],
          prev |-> NoTxn, row |-> NoAccount]
    ELSE [op |-> "calculateFees", id |-> Val(building), status |-> HTTP_200_OK,
          data |-> [building_id |-> building, reference_month |-> month]
                   @@ FeeData(Val(building), Val(month)),
          prev |-> NoTxn, row |-> NoAccount]

\* variant: a fee query switches the charges it has counted off
CalculateFees_Consuming(building, month) ==
    /\ resp' = FeeResponse(building, month)
    /\ charges' = [c \in DOMAIN charges |->
                      IF /\ FeeResponse(building, month).status = HTTP_200_OK
                         /\ c \in MonthCharges(Val(building), Val(month))
                      THEN [charges[c] EXCEPT !.active = FALSE] ELSE charges[c]]
    /\ postSnap' = NoSnap
    /\ UNCHANGED <<registryVars, ledgerVars, revenueVars, balanceVars, nextChargeId, units,
                   expenseVars, reqs>>

\* GET /calculate-fees/?building_id=..&reference_month=..
CalculateFees(building, month) ==
    /\ resp' = FeeResponse(building, month)
    /\ postSnap' = NoSnap
    /\ UNCHANGED <<registryVars, ledgerVars, revenueVars, balanceVars, chargeVars, units,
                   expenseVars, reqs>>

\* variant: a building without units goes through the tolerance test
FractionData_NoVacuous(building) ==
    [isValid |-> FractionValid(TotalIdealFraction(building)),
     totalFraction |-> Round6(TotalIdealFraction(building)),
     unitCount |-> Len(UnitsOf(building))]

\* The body validate_fractions_view answers; totalFraction is round(x, 6),
\* kept as a number of millionths.
FractionData(building) ==
    LET us == UnitsOf(building)
        total == TotalIdealFraction(building)
    IN  IF us = <<>> THEN [isValid |-> TRUE, totalFraction |-> 0, unitCount |-> 0]
        ELSE [isValid |-> FractionValid(total), totalFraction |-> Round6(total),
              unitCount |-> Len(us)]

\* GET /validate-fractions/?building_id=..
ValidateFractions(building) ==
    /\ resp' = IF building = None
               THEN [op |-> "validateFractions", id |-> 0, status |-> HTTP_400_BAD_REQUEST,
                     data |-> [building_id |-> building], prev |-> NoTxn, row |-> NoAccount]
               ELSE [op |-> "validateFractions", id |-> Val(building),
                     status |-> HTTP_200_OK,
                     data |-> [building_id |-> building] @@ FractionData(Val(building)),
                     prev |-> NoTxn, row |-> NoAccount]
    /\ postSnap' = NoSnap
    /\ UNCHANGED <<registryVars, ledgerVars, revenueVars, balanceVars, chargeVars, units,
                   expenseVars, reqs>>

(* ========================== Expense entries ============================ *)
ExpenseIds == 1..MaxExpenses
ExpenseAmounts == {50}

\* The body of POST /expense-entries/; isOutsideFiscalPeriod is read-only.
ExpenseData == [building : Buildings, amount : ExpenseAmounts, reference_month : ChargeMonths]

ExpenseResp(op, id, status) ==
    [op |-> op, id |-> id, status |-> status, data |-> NoData, prev |-> NoTxn,
     row |-> NoAccount]

\* variant: the oldest revenue account of the building gives the window
FirstRevenue_Oldest(building) ==
    CHOOSE r \in DOMAIN revenues :
        /\ revenues[r].building = building
        /\ \A q \in DOMAIN revenues : revenues[q].building = building => r <= q

\* building.revenue_accounts.all().first(): the ordering is -created_at, so
\* the first row is the one created last.
FirstRevenue(building) ==
    CHOOSE r \in DOMAIN revenues :
        /\ revenues[r].building = building
        /\ \A q \in DOMAIN revenues : revenues[q].building = building => q <= r

\* ExpenseEntry.save: the flag is computed when the building has a revenue
\* account and otherwise left as it is.
SavedExpense(row) ==
    IF \E r \in DOMAIN revenues : revenues[r].building = row.building
    THEN [row EXCEPT !.is_outside_fiscal_period =
              \/ StrLess(row.reference_month,
                         revenues[FirstRevenue(row.building)].fiscal_year_start)
              \/ StrLess(revenues[FirstRevenue(row.building)].fiscal_year_end,
                         row.reference_month)]
    ELSE row

\* ExpenseEntrySerializer.create: the flag starts at the model's default.
NewExpenseRow(data) ==
    [building |-> data.building, amount |-> data.amount,
     reference_month |-> data.reference_month, is_outside_fiscal_period |-> FALSE]

\* POST /expense-entries/
CreateExpense(data) ==
    /\ nextExpenseId <= MaxExpenses
    /\ expenses' = Upsert(expenses, nextExpenseId, SavedExpense(NewExpenseRow(data)))
    /\ nextExpenseId' = nextExpenseId + 1
    /\ resp' = ExpenseResp("createExpense", nextExpenseId, HTTP_201_CREATED)
    /\ postSnap' = NoSnap
    /\ UNCHANGED <<registryVars, ledgerVars, revenueVars, balanceVars, chargeVars, units, reqs>>

\* DELETE /expense-entries/<id>/
DeleteExpense(id) ==
    /\ expenses' = Remove(expenses, id)
    /\ resp' = ExpenseResp("deleteExpense", id,
                           IF id \in DOMAIN expenses THEN HTTP_200_OK ELSE HTTP_404_NOT_FOUND)
    /\ postSnap' = NoSnap
    /\ UNCHANGED <<nextExpenseId, registryVars, ledgerVars, revenueVars, balanceVars,
                   chargeVars, units, reqs>>

(* --------------- expense entries saved concurrently -------------------- *)
\* ExpenseEntry.save is three queries on the building's revenue accounts and
\* an INSERT, each autocommitted, so other requests' queries come in between.
\* start_from and end_from keep, as history, the rows the two first() calls read.
NewSave(data) ==
    [kind |-> "save", pc |-> "exists", data |-> data, fiscal_start |-> None,
     fiscal_end |-> None, start_from |-> 0, end_from |-> 0, status |-> 0, id |-> 0]
IdleSave == [NewSave([building |-> 0, amount |-> 0, reference_month |-> EmptyStr])
                 EXCEPT !.pc = "idle"]

HasRevenue(building) == \E r \in DOMAIN revenues : revenues[r].building = building

\* The flag of the row that is inserted: computed when both bounds were read
SavingRow(r) ==
    [NewExpenseRow(r.data) EXCEPT !.is_outside_fiscal_period =
        IF Given(r.fiscal_start) /\ Given(r.fiscal_end)
        THEN \/ StrLess(r.data.reference_month, Val(r.fiscal_start))
             \/ StrLess(Val(r.fiscal_end), r.data.reference_month)
        ELSE @]

\* POST /expense-entries/ arrives at worker q, which serves one request at a time
BeginSaveExpense(q, data) ==
    /\ reqs[q].pc \in {"idle", "done"}
    /\ nextExpenseId <= MaxExpenses
    /\ reqs' = [reqs EXCEPT ![q] = NewSave(data)]
    /\ UNCHANGED <<registryVars, ledgerVars, revenueVars, balanceVars, chargeVars, units,
                   expenseVars, resp, postSnap>>

\* The next query of the save of worker q. first() of an empty queryset is
\* None, and reading its attribute raises: the request ends in a 500.
StepSaveExpense(q) ==
    /\ reqs[q].pc \notin {"idle", "done"}
    /\ LET r == reqs[q]
           building == r.data.building
       IN  CASE r.pc = "exists" ->
                  /\ reqs' = [reqs EXCEPT ![q].pc = IF HasRevenue(building)
                                                   THEN "first_start" ELSE "insert"]
                  /\ UNCHANGED expenseVars
             [] r.pc = "first_start" ->
                  /\ reqs' = IF HasRevenue(building)
                             THEN [reqs EXCEPT
                                     ![q].fiscal_start =
                                         Some(revenues[FirstRevenue(building)].fiscal_year_start),
                                     ![q].start_from = FirstRevenue(building),
                                     ![q].pc = "first_end"]
                             ELSE [reqs EXCEPT ![q].pc = "done",
                                               ![q].status = HTTP_500_INTERNAL_SERVER_ERROR]
                  /\ UNCHANGED expenseVars
             [] r.pc = "first_end" ->
                  /\ reqs' = IF HasRevenue(building)
                             THEN [reqs EXCEPT
                                     ![q].fiscal_end =
                                         Some(revenues[FirstRevenue(building)].fiscal_year_end),
                                     ![q].end_from = FirstRevenue(building),
                                     ![q].pc = "insert"]
                             ELSE [reqs EXCEPT ![q].pc = "done",
                                               ![q].status = HTTP_500_INTERNAL_SERVER_ERROR]
                  /\ UNCHANGED expenseVars
             [] r.pc = "insert" ->
                  /\ nextExpenseId <= MaxExpenses
                  /\ expenses' = Upsert(expenses, nextExpenseId, SavingRow(r))
                  /\ nextExpenseId' = nextExpenseId + 1
                  /\ reqs' = [reqs EXCEPT ![q].pc = "done", ![q].id = nextExpenseId,
                                          ![q].status = HTTP_201_CREATED]
    /\ UNCHANGED <<registryVars, ledgerVars, revenueVars, balanceVars, chargeVars, units,
                   resp, postSnap>>

(* ========================== Financial report =========================== *)
Digits == {"0", "1", "2", "3", "4", "5", "6", "7", "8", "9"}
DigitOf(c) == Ord(c) - Ord("0")
DigitChar(n) ==
    CASE n = 0 -> "0" [] n = 1 -> "1" [] n = 2 -> "2" [] n = 3 -> "3" [] n = 4 -> "4"
      [] n = 5 -> "5" [] n = 6 -> "6" [] n = 7 -> "7" [] n = 8 -> "8" [] n = 9 -> "9"

\* datetime.strptime(s, '%Y-%m'): four digits, a dash and a month 1..12 of
\* one or two digits; anything else raises ValueError (None).  The date is
\* kept as its number of months since year 0.
ParseMonth(s) ==
    IF /\ Len(s) \in {6, 7}
       /\ \A i \in 1..4 : s[i] \in Digits
       /\ s[5] = "-"
       /\ \A i \in 6..Len(s) : s[i] \in Digits
    THEN LET year == DigitOf(s[1]) * 1000 + DigitOf(s[2]) * 100 + DigitOf(s[3]) * 10
                     + DigitOf(s[4])
             month == IF Len(s) = 6 THEN DigitOf(s[6])
                      ELSE DigitOf(s[6]) * 10 + DigitOf(s[7])
         IN  IF month \in 1..12 THEN Some(year * 12 + month - 1) ELSE None
    ELSE None

\* strftime('%Y-%m')
FormatMonth(date) ==
    LET year == date \div 12
        month == (date % 12) + 1
    IN  <<DigitChar(year \div 1000), DigitChar((year \div 100) % 10),
          DigitChar((year \div 10) % 10), DigitChar(year % 10), "-",
          DigitChar(month \div 10), DigitChar(month % 10)>>

RevenuesOf(building) == {r \in DOMAIN revenues : revenues[r].building = building}

\* variant: the window stops at the requested end
ReportEnd_Requested(building, end_date) == end_date

\* The end of the report window: the requested end, moved to the latest end
\* of the building's revenue accounts when that is later.
ReportEnd(building, end_date) ==
    LET ends == {Val(ParseMonth(revenues[r].end_month)) : r \in RevenuesOf(building)}
                \cup {end_date}
    IN  CHOOSE e \in ends : \A f \in ends : f <= e

\* months: from start_date to end_date in steps of one month
ReportMonths(start_date, end_date) ==
    [i \in 1..(IF end_date < start_date THEN 0 ELSE end_date - start_date + 1) |->
        FormatMonth(start_date + i - 1)]

\* variant: an account is counted from its start on, whatever its end
MonthRevenues_OpenEnded(building, month) ==
    {r \in RevenuesOf(building) : StrLeq(revenues[r].start_month, month)}

\* The revenue accounts counted for a month of the report
MonthRevenues(building, month) ==
    {r \in RevenuesOf(building) :
        StrLeq(revenues[r].start_month, month) /\ StrLeq(month, revenues[r].end_month)}

MonthExpenses(building, month) ==
    {e \in DOMAIN expenses :
        expenses[e].building = building /\ expenses[e].reference_month = month}

\* One entry of monthly_data; the expenses of a month are the same whether
\* added per parent account first or not.
MonthEntry(building, month, fiscal_year_start, fiscal_year_end) ==
    [month |-> month,
     totalRevenue |->
         FromRatio(SumOver(revenues, MonthRevenues(building, month), "monthly_amount"),
                   CentScale),
     totalExpenses |->
         FromRatio(SumOver(expenses, MonthExpenses(building, month), "amount"), CentScale),
     isOutsideFiscalPeriod |->
         StrLess(month, fiscal_year_start) \/ StrLess(fiscal_year_end, month)]

RECURSIVE SumMonths(_, _, _, _)
SumMonths(table, sets, field, n) ==
    IF n = 0 THEN 0 ELSE SumOver(table, sets[n], field) + SumMonths(table, sets, field, n - 1)

\* FinancialReportSerializer.to_representation
ReportData(building, fiscal_year_start, fiscal_year_end) ==
    LET months == ReportMonths(Val(ParseMonth(fiscal_year_start)),
                               ReportEnd(building, Val(ParseMonth(fiscal_year_end))))
    IN  [buildingId |-> building,
         fiscalYearStart |-> fiscal_year_start,
         fiscalYearEnd |-> fiscal_year_end,
         totalPlannedRevenue |->
             FromRatio(SumMonths(revenues,
                                 [i \in 1..Len(months) |-> MonthRevenues(building, months[i])],
                                 "monthly_amount", Len(months)), CentScale),
         totalActualExpenses |->
             FromRatio(SumMonths(expenses,
                                 [i \in 1..Len(months) |-> MonthExpenses(building, months[i])],
                                 "amount", Len(months)), CentScale),
         monthlyData |->
             [i \in 1..Len(months) |->
                 MonthEntry(building, months[i], fiscal_year_start, fiscal_year_end)]]

\* The report can be built when every strptime succeeds.
ReportParses(building, fiscal_year_start, fiscal_year_end) ==
    /\ ParseMonth(fiscal_year_start) # None
    /\ ParseMonth(fiscal_year_end) # None
    /\ \A r \in RevenuesOf(building) : ParseMonth(revenues[r].end_month) # None

\* What financial_report_view answers, kept together with the query
\* parameters: 400 without a parameter, 500 when building the report raises.
ReportResponse(building, fiscal_year_start, fiscal_year_end) ==
    LET query == [building_id |-> building, fiscal_year_start |-> fiscal_year_start,
                  fiscal_year_end |-> fiscal_year_end]
    IN  IF building = None \/ NotProvided(fiscal_year_start) \/ NotProvided(fiscal_year_end)
        THEN [op |-> "buildMonthlyReport", id |-> 0, status |-> HTTP_400_BAD_REQUEST,
              data |-> query, prev |-> NoTxn, row |-> NoAccount]
        ELSE IF ~ReportParses(Val(building), Val(fiscal_year_start), Val(fiscal_year_end))
        THEN [op |-> "buildMonthlyReport", id |-> Val(building),
              status |-> HTTP_500_INTERNAL_SERVER_ERROR,
              data |-> query, prev |-> NoTxn, row |-> NoAccount]
        ELSE [op |-> "buildMonthlyReport", id |-> Val(building), status |-> HTTP_200_OK,
              data |-> query @@ ReportData(Val(building), Val(fiscal_year_start),
                                           Val(fiscal_year_end)),
              prev |-> NoTxn, row |-> NoAccount]

\* GET /report/?building_id=..&fiscal_year_start=..&fiscal_year_end=..
BuildMonthlyReport(building, fiscal_year_start, fiscal_year_end) ==
    /\ resp' = ReportResponse(building, fiscal_year_start, fiscal_year_end)
    /\ postSnap' = NoSnap
    /\ UNCHANGED <<registryVars, ledgerVars, revenueVars, balanceVars, chargeVars, units,
                   expenseVars, reqs>>

(* ======================= Account monthly data ========================== *)
\* Besides the columns the ledger reads, an account row carries
\* expected_amount and the assembly period, two nullable dates.
Date(year, month, day) == [year |-> year, month |-> month, day |-> day]

\* datetime(d.year, d.month, 1), kept as a number of months since year 0
MonthOf(d) == d.year * 12 + d.month - 1

\* int(year)
RECURSIVE IntOf(_)
IntOf(s) == IF s = <<>> THEN 0 ELSE IntOf(SubSeq(s, 1, Len(s) - 1)) * 10 + DigitOf(s[Len(s)])

\* f"{year}-{str(month_num).zfill(2)}"
MonthStr(year, month_num) ==
    year \o <<"-", DigitChar(month_num \div 10), DigitChar(month_num % 10)>>

\* reference_month__startswith=year
StartsWith(s, prefix) == Len(prefix) <= Len(s) /\ SubSeq(s, 1, Len(prefix)) = prefix

\* float() of a whole amount of either sign
FloatOfInt(n) == IF n < 0 THEN FNeg(FromRatio(0 - n, 1)) ELSE FromRatio(n, 1)

\* variant: the assembly period is taken without its last month
ExpectedFor_EndExclusive(row, year, month_num) ==
    IF /\ row.assembly_start_date # None /\ row.assembly_end_date # None
       /\ MonthOf(Val(row.assembly_start_date)) <= IntOf(year) * 12 + month_num - 1
       /\ IntOf(year) * 12 + month_num - 1 < MonthOf(Val(row.assembly_end_date))
    THEN row.expected_amount ELSE 0

\* expected_amount of a month: the account's when both dates are set and
\* the first of the month lies between the firsts of their months.
ExpectedFor(row, year, month_num) ==
    IF /\ row.assembly_start_date # None /\ row.assembly_end_date # None
       /\ MonthOf(Val(row.assembly_start_date)) <= IntOf(year) * 12 + month_num - 1
       /\ IntOf(year) * 12 + month_num - 1 <= MonthOf(Val(row.assembly_end_date))
    THEN row.expected_amount ELSE 0

\* monthly_actual.get(month_str, 0) over the account's transactions of the year
ActualFor(account_id, year, month_num) ==
    SumOver(transactions,
            {t \in DOMAIN transactions :
                /\ transactions[t].account_id = account_id
                /\ StartsWith(transactions[t].reference_month, year)
                /\ transactions[t].reference_month = MonthStr(year, month_num)},
            "amount")

\* What account_monthly_data_view answers, kept together with the query
\* parameters: 400 without account_id, 404 for an account that does not exist.
MonthlyResponse(account_id, year) ==
    LET query == [account_id |-> account_id, year |-> year]
    IN  IF account_id = None
        THEN [op |-> "accountMonthlyData", id |-> 0, status |-> HTTP_400_BAD_REQUEST,
              data |-> query, prev |-> NoTxn, row |-> NoAccount]
        ELSE IF Val(account_id) \notin DOMAIN accounts
        THEN [op |-> "accountMonthlyData", id |-> Val(account_id),
              status |-> HTTP_404_NOT_FOUND,
              data |-> query, prev |-> NoTxn, row |-> NoAccount]
        ELSE [op |-> "accountMonthlyData", id |-> Val(account_id), status |-> HTTP_200_OK,
              data |-> query @@
                  [totalExpected |-> FloatOfInt(accounts[Val(account_id)].expected_amount),
                   totalActual |-> FloatOfInt(accounts[Val(account_id)].actual_amount),
                   monthlyData |->
                       [n \in 1..12 |->
                           [month |-> MonthStr(year, n),
                            expectedAmount |->
                                FloatOfInt(ExpectedFor(accounts[Val(account_id)], year, n)),
                            actualAmount |->
                                FloatOfInt(ActualFor(Val(account_id), year, n))]]],
              prev |-> NoTxn, row |-> NoAccount]

\* GET /account-monthly-data/?account_id=..&year=..
AccountMonthlyData(account_id, year) ==
    /\ resp' = MonthlyResponse(account_id, year)
    /\ postSnap' = NoSnap
    /\ UNCHANGED <<registryVars, ledgerVars, revenueVars, balanceVars, chargeVars, units,
                   expenseVars, reqs>>

(* ====================== Financial charts (PDF) ========================= *)
\* a divided by b, bit by bit from bit i of a down; st holds the quotient
\* and the remainder of the bits above i
RECURSIVE BDivFrom(_, _, _, _)
BDivFrom(a, b, i, st) ==
    IF i < 0 THEN st
    ELSE LET r2 == BAdd(BMulSmall(st.r, 2), BFromNat(BBit(a, i)))
         IN  IF BCmp(r2, b) >= 0
             THEN BDivFrom(a, b, i - 1,
                           [q |-> BAdd(BMulSmall(st.q, 2), <<1>>), r |-> BSub(r2, b)])
             ELSE BDivFrom(a, b, i - 1, [q |-> BMulSmall(st.q, 2), r |-> r2])

\* x / y for y # 0: the quotient of the mantissas carried to more than 53
\* bits, the remainder deciding ties
FDiv(x, y) ==
    IF x.m = <<>> THEN FZero
    ELSE LET s == BitLen(y.m) + MantissaBits + 2
             a == BShl(x.m, s)
             qr == BDivFrom(a, y.m, BitLen(a) - 1, [q |-> <<>>, r |-> <<>>])
         IN  FRound(x.neg # y.neg, qr.q, x.e - y.e - s, qr.r # <<>>)

\* m.get(key, default) on an entry of monthlyData
EntryGet(entry, key, default) == IF key \in DOMAIN entry THEN entry[key] ELSE default

\* sum(float(m.get(key, 0)) for m in monthly_data), left to right from 0
RECURSIVE FSumEntries(_, _, _)
FSumEntries(entries, key, n) ==
    IF n = 0 THEN FZero
    ELSE FAdd(FSumEntries(entries, key, n - 1), EntryGet(entries[n], key, FZero))

\* sum(1 for m in monthly_data if float(m.get(key, 0)) > 0)
CountPositive(entries, key) ==
    Cardinality({i \in 1..Len(entries) : FLess(FZero, EntryGet(entries[i], key, FZero))})

\* The projection flag of the monthly evolution: "none" when it is skipped.
\* The charts read the key totalExpense of the report's monthly entries.
BudgetFlag(report) ==
    LET monthly_data == report.monthlyData
        total_revenue == report.totalPlannedRevenue
        total_expense == FSumEntries(monthly_data, "totalExpense", Len(monthly_data))
        completed_months == CountPositive(monthly_data, "totalExpense")
    IN  IF Len(monthly_data) > 0 /\ completed_months > 0 /\ FLess(FZero, total_revenue)
        THEN LET avg_monthly_spending == FDiv(total_expense, FromRatio(completed_months, 1))
                 projected_annual ==
                     FMul(avg_monthly_spending, FromRatio(Len(monthly_data), 1))
                 percentage ==
                     FSub(FMul(FDiv(projected_annual, total_revenue), FromRatio(100, 1)),
                          FromRatio(100, 1))
             IN  IF ~FLess(total_revenue, projected_annual) THEN "green"
                 ELSE IF ~FLess(FromRatio(20, 1), percentage) THEN "yellow"
                 ELSE "red"
        ELSE "none"

\* generate_financial_charts(building, start_date, end_date): the dates are
\* formatted as months and the report is built by the same serializer; an
\* exception of the serializer is passed on (500).
GenerateFinancialCharts(building, start_date, end_date) ==
    /\ LET start_month == FormatMonth(start_date)
           end_month == FormatMonth(end_date)
           query == [building_id |-> building, start_month |-> start_month,
                     end_month |-> end_month]
       IN  resp' = IF ~ReportParses(building, start_month, end_month)
                   THEN [op |-> "generateFinancialCharts", id |-> building,
                         status |-> HTTP_500_INTERNAL_SERVER_ERROR,
                         data |-> query, prev |-> NoTxn, row |-> NoAccount]
                   ELSE [op |-> "generateFinancialCharts", id |-> building,
                         status |-> HTTP_200_OK,
                         data |-> query @@
                             [report |-> ReportData(building, start_month, end_month),
                              flag |-> BudgetFlag(ReportData(building, start_month,
                                                             end_month))],
                         prev |-> NoTxn, row |-> NoAccount]
    /\ postSnap' = NoSnap
    /\ UNCHANGED <<registryVars, ledgerVars, revenueVars, balanceVars, chargeVars, units,
                   expenseVars, reqs>>

(* ======================== Specifications =============================== *)
NoResp == [op |-> "none", id |-> 0, status |-> 0, data |-> NoData, prev |-> NoTxn,
           row |-> NoAccount]

\* The empty database, no request served yet.
Init ==
    /\ accounts = EmptyTable
    /\ nextAccountId = 1
    /\ transactions = EmptyTable
    /\ nextTxnId = 1
    /\ revenues = EmptyTable
    /\ nextRevenueId = 1
    /\ balances = EmptyTable
    /\ nextBalanceId = 1
    /\ charges = EmptyTable
    /\ nextChargeId = 1
    /\ units = EmptyTable
    /\ expenses = EmptyTable
    /\ nextExpenseId = 1
    /\ reqs = [q \in {} |-> IdleReq]
    /\ resp = NoResp
    /\ postSnap = NoSnap

\* Requests of the ledger specification: two accounts of one building, without
\* parent, one opened with actualAmount 0 and one with actualAmount 1, and
\* transactions of one reference month.
LedgerAccountData ==
    {d \in AccountData : /\ d.building = 1 /\ d.parent = None /\ d.balance_type = None
                         /\ \/ d.code = "1.0" /\ d.actual_amount = 0
                            \/ d.code = "2.0" /\ d.actual_amount = 1}
LedgerMonths == {"2025-01"}
LedgerTxnData == {d \in TxnData : Val(d.reference_month) \in LedgerMonths}
LedgerPartialTxnData ==
    {d \in PartialTxnData : Given(d.reference_month) => Val(d.reference_month) \in LedgerMonths}
\* Served one at a time, the ledger requests carry a debit of 1 or a credit of 2.
LedgerAmounts == {-1, 2}
SerialTxnData == {d \in LedgerTxnData : Val(d.amount) \in LedgerAmounts}
SerialPartialTxnData ==
    {d \in LedgerPartialTxnData : Given(d.amount) => Val(d.amount) \in LedgerAmounts}

\* The ledger served one request at a time.
Next ==
    \/ \E d \in LedgerAccountData : CreateAccount(d)
    \/ \E d \in SerialTxnData : PostTransaction(d)
    \/ \E t \in TxnIds, d \in SerialPartialTxnData : UpdateTransaction(t, d)
    \/ \E t \in TxnIds : DeleteTransaction(t)

Spec == Init /\ [][Next]_vars

\* Requests of the registry specification: accounts of two buildings, whose
\* building, code and balance classification are set and changed.
RegistryAccountData == {d \in AccountData : d.parent = None /\ d.actual_amount = 1}
RegistryAccountUpdates ==
    {d \in PartialAccountData : d.parent = None /\ d.actual_amount = None}

\* The chart of accounts served one request at a time.
RegistryNext ==
    \/ \E d \in RegistryAccountData : CreateAccount(d)
    \/ \E a \in AccountIds, d \in RegistryAccountUpdates : UpdateAccount(a, d)

RegistrySpec == Init /\ [][RegistryNext]_vars

\* Requests of the account specification: accounts of two buildings, with or
\* without parent, whose every field may be changed.
AccountRequestData ==
    {d \in AccountData : d.actual_amount = 1 /\ d.balance_type = None}
AccountRequestUpdates ==
    {d \in PartialAccountData : d.actual_amount \in Opt({2}) /\ d.balance_type = None}

AccountNext ==
    \/ \E d \in AccountRequestData : CreateAccount(d)
    \/ \E a \in AccountIds, d \in AccountRequestUpdates : UpdateAccount(a, d)

AccountSpec == Init /\ [][AccountNext]_vars

\* Requests of the revenue specification: revenue accounts of one building
\* and one fiscal year, against one account.
RevenueAccountData ==
    {d \in AccountData : d.building = 1 /\ d.code = "1.0" /\ d.parent = None
                         /\ d.actual_amount = 1 /\ d.balance_type = None}
RevenueRequestData ==
    {d \in RevenueData : d.building = 1 /\ d.account_id = 1
                         /\ d.fiscal_year_start = Y2024 /\ d.fiscal_year_end = Y2024}
ExtendInputs == Opt(Periods \cup {EmptyStr})

RevenueNext ==
    \/ \E d \in RevenueAccountData : CreateAccount(d)
    \/ \E d \in RevenueRequestData : CreateRevenueAccount(d)
    \/ \E r \in RevenueIds, o \in ExtendInputs : ExtendRevenue(r, o)
    \/ \E r \in RevenueIds : DeleteRevenueAccount(r)

RevenueSpec == Init /\ [][RevenueNext]_vars

\* The account balances served one request at a time.
BalanceNext ==
    \/ \E d \in BalanceData : CreateBalance(d)
    \/ \E b \in BalanceIds, d \in PartialBalanceData : UpdateBalance(b, d)
    \/ \E b \in BalanceIds : DeleteBalance(b)

BalanceSpec == Init /\ [][BalanceNext]_vars

\* The concurrent ledger starts from two accounts of building 1 and one
\* transaction of amount 1 posted against the first.
ConcAccounts ==
    Upsert(Upsert(EmptyTable, 1,
                  [building |-> 1, code |-> "1.0", parent |-> NoParent,
                   actual_amount |-> 1, balance_type |-> "ordinary"]),
           2, [building |-> 1, code |-> "2.0", parent |-> NoParent,
               actual_amount |-> 0, balance_type |-> "ordinary"])
ConcTransactions ==
    Upsert(EmptyTable, 1, [account_id |-> 1, amount |-> 1, reference_month |-> "2025-01"])
ConcWorld == [accounts |-> ConcAccounts, transactions |-> ConcTransactions, nextTxnId |-> 2]

ConcInit ==
    /\ accounts = ConcWorld.accounts
    /\ nextAccountId = 3
    /\ transactions = ConcWorld.transactions
    /\ nextTxnId = ConcWorld.nextTxnId
    /\ revenues = EmptyTable
    /\ nextRevenueId = 1
    /\ balances = EmptyTable
    /\ nextBalanceId = 1
    /\ charges = EmptyTable
    /\ nextChargeId = 1
    /\ units = EmptyTable
    /\ expenses = EmptyTable
    /\ nextExpenseId = 1
    /\ reqs = [q \in Reqs |-> IdleReq]
    /\ resp = NoResp
    /\ postSnap = NoSnap

ConcTxnData == {d \in LedgerTxnData : Val(d.account_id) \in DOMAIN ConcAccounts
                                      /\ Val(d.amount) \in {1, 2}}
ConcPartialTxnData ==
    {d \in PartialTxnData : /\ d.reference_month = None
                            /\ d.account_id \in Opt(DOMAIN ConcAccounts)
                            /\ d.amount \in Opt({2})}
ConcTxnIds == {1, 2}

ConcNext ==
    \/ \E q \in Reqs, d \in ConcTxnData : BeginPost(q, d)
    \/ \E q \in Reqs, t \in ConcTxnIds, d \in ConcPartialTxnData : BeginUpdate(q, t, d)
    \/ \E q \in Reqs, t \in ConcTxnIds : BeginDelete(q, t)
    \/ \E q \in Reqs : StepRequest(q)
    \/ \E q \in Reqs : CrashRequest(q)

ConcSpec == ConcInit /\ [][ConcNext]_vars

\* The fee specifications start from a building with registered units and an
\* account to book revenue against: building 1 holds two units of one half
\* each, building 2 one unit of the whole.
FeeAccounts ==
    Upsert(EmptyTable, 1, [building |-> 1, code |-> "1.0", parent |-> NoParent,
                           actual_amount |-> 1, balance_type |-> "ordinary"])
FeeUnits ==
    Upsert(Upsert(Upsert(EmptyTable, 1, [building |-> 1, ideal_fraction |-> 5000]),
                  2, [building |-> 1, ideal_fraction |-> 5000]),
           3, [building |-> 2, ideal_fraction |-> 10000])

BudgetInit ==
    /\ accounts = FeeAccounts
    /\ nextAccountId = 2
    /\ transactions = EmptyTable
    /\ nextTxnId = 1
    /\ revenues = EmptyTable
    /\ nextRevenueId = 1
    /\ balances = EmptyTable
    /\ nextBalanceId = 1
    /\ charges = EmptyTable
    /\ nextChargeId = 1
    /\ units = FeeUnits
    /\ expenses = EmptyTable
    /\ nextExpenseId = 1
    /\ reqs = [q \in {} |-> IdleReq]
    /\ resp = NoResp
    /\ postSnap = NoSnap

\* Requests of the budget specification: revenue accounts of both buildings
\* over the years 2024 and 2025, extended to 2026, and fee queries for a
\* month of 2024 and one of 2025.
BudgetRevenueData ==
    {d \in RevenueData : /\ d.account_id = 1
                         /\ d.start_month \in {Y2024, Y2025}
                         /\ d.end_month \in {Y2024, Y2025}
                         /\ d.fiscal_year_start = Y2024 /\ d.fiscal_year_end = Y2024}
FeeMonths == {M2024_06, M2025_06}

BudgetNext ==
    \/ \E d \in BudgetRevenueData : CreateRevenueAccount(d)
    \/ \E r \in RevenueIds : ExtendRevenue(r, Some(Y2026))
    \/ \E r \in RevenueIds : DeleteRevenueAccount(r)
    \/ \E b \in Buildings, m \in FeeMonths : CalculateFees(Some(b), Some(m))

BudgetSpec == BudgetInit /\ [][BudgetNext]_vars

\* The charge specification starts from the same building with one revenue
\* account of building 1 that covers 2025.
FeeRevenues ==
    Upsert(EmptyTable, 1,
           [building |-> 1, account_id |-> 1, monthly_amount |-> 100,
            start_month |-> Y2025, end_month |-> Y2025,
            fiscal_year_start |-> Y2025, fiscal_year_end |-> Y2025,
            is_extended |-> FALSE])

ChargeInit ==
    /\ accounts = FeeAccounts
    /\ nextAccountId = 2
    /\ transactions = EmptyTable
    /\ nextTxnId = 1
    /\ revenues = FeeRevenues
    /\ nextRevenueId = 2
    /\ balances = EmptyTable
    /\ nextBalanceId = 1
    /\ charges = EmptyTable
    /\ nextChargeId = 1
    /\ units = FeeUnits
    /\ expenses = EmptyTable
    /\ nextExpenseId = 1
    /\ reqs = [q \in {} |-> IdleReq]
    /\ resp = NoResp
    /\ postSnap = NoSnap

\* Requests of the charge specification: charges of 0.50 for both buildings
\* and both months, created active; an update switches a charge on or off or
\* moves it to another month.
ChargeRequestData ==
    {d \in ChargeData : d.total_amount = 50 /\ d.active = None}
ChargeUpdateData ==
    {d \in PartialChargeData :
        /\ d.building = None /\ d.total_amount = None
        /\ (d.reference_month = None) # (d.active = None)}

ChargeNext ==
    \/ \E d \in ChargeRequestData : CreateCharge(d)
    \/ \E c \in ChargeIds, d \in ChargeUpdateData : UpdateCharge(c, d)
    \/ \E c \in ChargeIds : DeleteCharge(c)
    \/ \E b \in Buildings, m \in FeeMonths : CalculateFees(Some(b), Some(m))

ChargeSpec == ChargeInit /\ [][ChargeNext]_vars

\* The unit specification starts without units, from the revenue account of
\* 1.00 a month and one active charge of 1000.00 for June 2025, both of
\* building 1.
FeeCharges ==
    Upsert(EmptyTable, 1, [building |-> 1, total_amount |-> 100000,
                           reference_month |-> M2025_06, active |-> TRUE])

UnitInit ==
    /\ accounts = FeeAccounts
    /\ nextAccountId = 2
    /\ transactions = EmptyTable
    /\ nextTxnId = 1
    /\ revenues = FeeRevenues
    /\ nextRevenueId = 2
    /\ balances = EmptyTable
    /\ nextBalanceId = 1
    /\ charges = FeeCharges
    /\ nextChargeId = 2
    /\ units = EmptyTable
    /\ expenses = EmptyTable
    /\ nextExpenseId = 1
    /\ reqs = [q \in {} |-> IdleReq]
    /\ resp = NoResp
    /\ postSnap = NoSnap

\* Requests of the unit specification: units are registered in either
\* building; the queries name a building or leave the parameter out.
UnitNext ==
    \/ \E b \in Buildings, f \in Fractions : RegisterUnit(b, f)
    \/ \E b \in Opt(Buildings), m \in Opt({M2025_06}) : CalculateFees(b, m)
    \/ \E b \in Opt(Buildings) : ValidateFractions(b)

UnitSpec == UnitInit /\ [][UnitNext]_vars

\* The expense specification starts from the account of building 1 alone.
ExpenseInit ==
    /\ accounts = FeeAccounts
    /\ nextAccountId = 2
    /\ transactions = EmptyTable
    /\ nextTxnId = 1
    /\ revenues = EmptyTable
    /\ nextRevenueId = 1
    /\ balances = EmptyTable
    /\ nextBalanceId = 1
    /\ charges = EmptyTable
    /\ nextChargeId = 1
    /\ units = EmptyTable
    /\ expenses = EmptyTable
    /\ nextExpenseId = 1
    /\ reqs = [q \in {} |-> IdleReq]
    /\ resp = NoResp
    /\ postSnap = NoSnap

\* Requests of the expense specification: revenue accounts of both buildings
\* with the fiscal window 2024..2025 or 2025..2025, expenses of building 1
\* for June 2024 and June 2025.
ExpenseRevenueData ==
    {d \in RevenueData : /\ d.account_id = 1
                         /\ d.start_month = Y2025 /\ d.end_month = Y2025
                         /\ d.fiscal_year_start \in {Y2024, Y2025}
                         /\ d.fiscal_year_end = Y2025}
ExpenseRequestData == {d \in ExpenseData : d.building = 1}

ExpenseNext ==
    \/ \E d \in ExpenseRevenueData : CreateRevenueAccount(d)
    \/ \E r \in RevenueIds : DeleteRevenueAccount(r)
    \/ \E d \in ExpenseRequestData : CreateExpense(d)
    \/ \E e \in ExpenseIds : DeleteExpense(e)

ExpenseSpec == ExpenseInit /\ [][ExpenseNext]_vars

\* Requests of the report specification: revenue accounts of both buildings
\* whose period is the year 2025, February 2025, or the year up to February,
\* extended to March, and reports over January and February 2025.
M2025_01 == <<"2", "0", "2", "5", "-", "0", "1">>
M2025_02 == <<"2", "0", "2", "5", "-", "0", "2">>
M2025_03 == <<"2", "0", "2", "5", "-", "0", "3">>
ReportPeriods == {<<Y2025, Y2025>>, <<M2025_02, M2025_02>>, <<Y2025, M2025_02>>}
ReportRevenueData ==
    {[building |-> b, account_id |-> 1, monthly_amount |-> 100,
      start_month |-> p[1], end_month |-> p[2],
      fiscal_year_start |-> Y2025, fiscal_year_end |-> Y2025] :
        b \in Buildings, p \in ReportPeriods}
ReportQueryMonths == {M2025_01, M2025_02}

ReportNext ==
    \/ \E d \in ReportRevenueData : CreateRevenueAccount(d)
    \/ \E r \in RevenueIds : ExtendRevenue(r, Some(M2025_03))
    \/ \E b \in Buildings, s \in ReportQueryMonths, e \in ReportQueryMonths :
          BuildMonthlyReport(Some(b), Some(s), Some(e))

ReportSpec == ExpenseInit /\ [][ReportNext]_vars

\* The monthly specification starts from one account of building 1 with an
\* expected amount of 1200 and any assembly period over three dates, either
\* date possibly not set; transactions are posted for January and February
\* 2025 and deleted, and the monthly data is asked for 2024 and 2025.
AssemblyDates == {Date(2024, 12, 31), Date(2025, 2, 15), Date(2025, 3, 1)}
MonthlyAccounts ==
    {Upsert(EmptyTable, 1,
            [building |-> 1, code |-> "1.0", parent |-> NoParent, actual_amount |-> 0,
             balance_type |-> "ordinary", expected_amount |-> 1200,
             assembly_start_date |-> s, assembly_end_date |-> e]) :
        s \in Opt(AssemblyDates), e \in Opt(AssemblyDates)}

MonthlyInit ==
    /\ accounts \in MonthlyAccounts
    /\ nextAccountId = 2
    /\ transactions = EmptyTable
    /\ nextTxnId = 1
    /\ revenues = EmptyTable
    /\ nextRevenueId = 1
    /\ balances = EmptyTable
    /\ nextBalanceId = 1
    /\ charges = EmptyTable
    /\ nextChargeId = 1
    /\ units = EmptyTable
    /\ expenses = EmptyTable
    /\ nextExpenseId = 1
    /\ reqs = [q \in {} |-> IdleReq]
    /\ resp = NoResp
    /\ postSnap = NoSnap

MonthlyTxnData ==
    [account_id : {Some(1)}, amount : {Some(-1), Some(2)},
     reference_month : {Some(M2025_01), Some(M2025_02)}]
MonthlyYears == {Y2024, Y2025}

MonthlyNext ==
    \/ \E d \in MonthlyTxnData : PostTransaction(d)
    \/ \E t \in TxnIds : DeleteTransaction(t)
    \/ \E a \in Opt(AccountIds), y \in MonthlyYears : AccountMonthlyData(a, y)

MonthlySpec == MonthlyInit /\ [][MonthlyNext]_vars

\* The chart specification starts from a revenue account of building 1 of
\* 1.00 a month over January and February 2025; expenses of 0.50 and 1.50
\* are recorded for those months and deleted, and the charts are generated
\* from January to January or to February.
ChartRevenues ==
    Upsert(EmptyTable, 1,
           [building |-> 1, account_id |-> 1, monthly_amount |-> 100,
            start_month |-> M2025_01, end_month |-> M2025_02,
            fiscal_year_start |-> Y2025, fiscal_year_end |-> Y2025,
            is_extended |-> FALSE])

ChartInit ==
    /\ accounts = FeeAccounts
    /\ nextAccountId = 2
    /\ transactions = EmptyTable
    /\ nextTxnId = 1
    /\ revenues = ChartRevenues
    /\ nextRevenueId = 2
    /\ balances = EmptyTable
    /\ nextBalanceId = 1
    /\ charges = EmptyTable
    /\ nextChargeId = 1
    /\ units = EmptyTable
    /\ expenses = EmptyTable
    /\ nextExpenseId = 1
    /\ reqs = [q \in {} |-> IdleReq]
    /\ resp = NoResp
    /\ postSnap = NoSnap

ChartExpenseData ==
    [building : {1}, amount : {50, 150}, reference_month : {M2025_01, M2025_02}]
January2025 == 2025 * 12
ChartEnds == {January2025, January2025 + 1}

ChartNext ==
    \/ \E d \in ChartExpenseData : CreateExpense(d)
    \/ \E e \in ExpenseIds : DeleteExpense(e)
    \/ \E b \in Buildings, e \in ChartEnds : GenerateFinancialCharts(b, January2025, e)

ChartSpec == ChartInit /\ [][ChartNext]_vars

\* Deleting accounts: a main account and a sub-account of it in building 1,
\* postings and revenue accounts on them, and deletions under each of the
\* store's possible treatments of the postings.
DeletionAccountData ==
    {d \in AccountData : /\ d.building = 1 /\ d.actual_amount = 0 /\ d.balance_type = None
                         /\ \/ d.code = "1.0" /\ d.parent = None
                            \/ d.code = "2.0" /\ d.parent = Some(1)}
DeletionTxnData == {d \in SerialTxnData : Val(d.amount) = 2}
DeletionRevenueData ==
    {d \in RevenueData : /\ d.building = 1 /\ d.monthly_amount = 100
                         /\ d.start_month = Y2025 /\ d.end_month = Y2025
                         /\ d.fiscal_year_start = Y2025 /\ d.fiscal_year_end = Y2025}

DeletionNext ==
    \/ \E d \in DeletionAccountData : CreateAccount(d)
    \/ \E d \in DeletionTxnData : PostTransaction(d)
    \/ \E d \in DeletionRevenueData : CreateRevenueAccount(d)
    \/ \E a \in AccountIds, p \in TransactionOnDelete : DeleteAccount(a, p)

DeletionSpec == Init /\ [][DeletionNext]_vars

\* Expense entries saved while revenue accounts of the building come and go:
\* the revenue accounts differ in their fiscal year start and end.
SaveRevenueData ==
    {d \in RevenueData : /\ d.building = 1 /\ d.account_id = 1 /\ d.monthly_amount = 100
                         /\ d.start_month = Y2025 /\ d.end_month = Y2025
                         /\ <<d.fiscal_year_start, d.fiscal_year_end>>
                                \in {<<Y2024, Y2024>>, <<Y2025, Y2025>>}}
\* One worker saves expense entries; the revenue requests are served by others.
SaveWorkers == {1}
SaveInit ==
    /\ accounts = FeeAccounts
    /\ nextAccountId = 2
    /\ transactions = EmptyTable
    /\ nextTxnId = 1
    /\ revenues = EmptyTable
    /\ nextRevenueId = 1
    /\ balances = EmptyTable
    /\ nextBalanceId = 1
    /\ charges = EmptyTable
    /\ nextChargeId = 1
    /\ units = EmptyTable
    /\ expenses = EmptyTable
    /\ nextExpenseId = 1
    /\ reqs = [q \in SaveWorkers |-> IdleSave]
    /\ resp = NoResp
    /\ postSnap = NoSnap

SaveNext ==
    \/ \E d \in SaveRevenueData : CreateRevenueAccount(d)
    \/ \E r \in RevenueIds : DeleteRevenueAccount(r)
    \/ \E q \in SaveWorkers, d \in ExpenseRequestData : BeginSaveExpense(q, d)
    \/ \E q \in SaveWorkers : StepSaveExpense(q)

SaveSpec == SaveInit /\ [][SaveNext]_vars

\* Fees and reports of the same buildings: the units of the fee
\* specifications, the revenue accounts and the months of the report
\* specification.
CoverageNext ==
    \/ \E d \in ReportRevenueData : CreateRevenueAccount(d)
    \/ \E b \in Buildings, m \in ReportQueryMonths : CalculateFees(Some(b), Some(m))
    \/ \E b \in Buildings, s \in ReportQueryMonths, e \in ReportQueryMonths :
          BuildMonthlyReport(Some(b), Some(s), Some(e))

CoverageSpec == BudgetInit /\ [][CoverageNext]_vars

(* ============================ Claims =================================== *)
RECURSIVE SumAmounts(_, _)
SumAmounts(txns, ids) ==
    IF ids = {} THEN 0
    ELSE LET t == CHOOSE x \in ids : TRUE
         IN  txns[t].amount + SumAmounts(txns, ids \ {t})

\* Sum of the amounts of the transactions posted against account a
Posted(a) == SumAmounts(transactions, {t \in DOMAIN transactions : transactions[t].account_id = a})

LedgerOps == {"postTransaction", "updateTransaction", "deleteTransaction"}

\* C1: after any sequence of ledger operations (post, update, delete), every
\* account's actual_amount equals the sum of the amounts of the transactions
\* that exist against it.
C1_LedgerConsistency ==
    resp.op \in LedgerOps =>
        \A a \in DOMAIN accounts : accounts[a].actual_amount = Posted(a)

\* C4: a successful update of transaction t (old amount a on account X) to
\* amount b on account Y takes a from X and gives b to Y when Y # X, changes X
\* by b - a when Y = X, leaves every other account alone, and a field that is
\* not supplied keeps its old value.
C4_UpdateEffect ==
    [][(resp'.op = "updateTransaction" /\ resp'.status = HTTP_200_OK) =>
        LET t == resp'.id
            d == resp'.data
            X == transactions[t].account_id
            a == transactions[t].amount
            Y == IF Given(d.account_id) THEN Val(d.account_id) ELSE X
            b == IF Given(d.amount) THEN Val(d.amount) ELSE a
        IN  /\ t \in DOMAIN transactions /\ t \in DOMAIN transactions'
            /\ transactions'[t].account_id = Y
            /\ transactions'[t].amount = b
            /\ DOMAIN accounts' = DOMAIN accounts
            /\ \A c \in DOMAIN accounts :
                 accounts'[c].actual_amount =
                    accounts[c].actual_amount
                    + (IF c = Y THEN b ELSE 0) - (IF c = X THEN a ELSE 0)
    ]_vars

\* An update has just moved a transaction to another account with another amount.
C4_Witness ==
    /\ resp.op = "updateTransaction" /\ resp.status = HTTP_200_OK
    /\ resp.prev.account_id # transactions[resp.id].account_id
    /\ resp.prev.amount # transactions[resp.id].amount

\* C5: deleting a transaction right after posting it removes the record and
\* returns every account's actual_amount to its value before the post.
C5_PostDeleteRoundTrip ==
    (resp.op = "deleteTransaction" /\ resp.status = HTTP_200_OK /\ postSnap.tid = resp.id) =>
        /\ resp.id \notin DOMAIN transactions
        /\ Actuals(accounts) = postSnap.actual

\* A posted transaction has just been deleted again.
C5_Witness ==
    /\ resp.op = "deleteTransaction" /\ resp.status = HTTP_200_OK
    /\ postSnap.tid = resp.id
    /\ resp.prev.amount # 0

AccountOps == {"createAccount", "updateAccount"}

\* C6: only the ledger operations change an account's actual_amount: any
\* other request leaves the actual_amount of every existing account as it was.
C6_ActualOnlyByLedger ==
    [][resp'.op \notin LedgerOps =>
        \A a \in DOMAIN accounts :
            a \in DOMAIN accounts' =>
                accounts'[a].actual_amount = accounts[a].actual_amount]_vars

\* C7: no two accounts of one building share a code, and a create or update
\* whose (building, code) is held by another account is rejected and leaves
\* the accounts unchanged.
C7_CodeUnique ==
    /\ [](\A a, b \in DOMAIN accounts :
            (a # b /\ accounts[a].building = accounts[b].building)
                => accounts[a].code # accounts[b].code)
    /\ [][(/\ resp'.op \in AccountOps
           /\ \E a \in DOMAIN accounts :
                /\ a # resp'.id
                /\ accounts[a].building = resp'.row.building
                /\ accounts[a].code = resp'.row.code)
          => (accounts' = accounts /\ resp'.status >= HTTP_400_BAD_REQUEST)]_vars

\* An update that would give an account the (building, code) of another one
\* has just been rejected.
C7_Witness ==
    /\ resp.op = "updateAccount" /\ resp.status >= HTTP_400_BAD_REQUEST
    /\ resp.id \in DOMAIN accounts
    /\ accounts[resp.id].code # resp.row.code
    /\ \E a \in DOMAIN accounts :
        /\ a # resp.id
        /\ accounts[a].building = resp.row.building
        /\ accounts[a].code = resp.row.code

\* C8: every account that has a parent belongs to the building of its parent.
C8_ParentSameBuilding ==
    \A a \in DOMAIN accounts :
        accounts[a].parent # NoParent =>
            /\ accounts[a].parent \in DOMAIN accounts
            /\ accounts[accounts[a].parent].building = accounts[a].building

\* C9: every stored balance record whose classification is extraordinary has
\* a non-empty balance name.
C9_ExtraordinaryNamed ==
    \A b \in DOMAIN balances :
        balances[b].balance_type = "extraordinary" => balances[b].balance_name # ""

Started(r) == NewReq(r.kind, IF r.kind = "post" THEN 0 ELSE r.tid, r.data)

\* Every account's actual_amount after serving the requests Q one after the
\* other from world w, in each possible order
RECURSIVE SerialOutcomes(_, _)
SerialOutcomes(w, Q) ==
    IF Q = {} THEN {Actuals(w.accounts)}
    ELSE UNION {SerialOutcomes(Run(w, Started(reqs[q])).w, Q \ {q}) : q \in Q}

\* C2: when concurrent ledger requests have all completed, every account's
\* actual_amount is what serving them one after the other would have left.
C2_NoLostUpdate ==
    (\A q \in DOMAIN reqs : reqs[q].pc = "done")
        => Actuals(accounts) \in SerialOutcomes(ConcWorld, DOMAIN reqs)

\* C3: the row change and the balance change of a ledger request are one
\* atomic step: with a single request started (running, crashed or done), the
\* database never shows a transaction without its balance adjustment or the
\* reverse.
C3_AtomicPosting ==
    (DOMAIN reqs # {} /\ Cardinality({q \in DOMAIN reqs : reqs[q].pc # "idle"}) <= 1)
        => \A a \in DOMAIN accounts : accounts[a].actual_amount = Posted(a)

\* C11: a successful extendRevenue never leaves the revenue account with an
\* end period earlier than the one it had before the call.
C11_ExtensionMonotone ==
    [][(resp'.op = "extendRevenue" /\ resp'.status = HTTP_200_OK) =>
        StrLeq(revenues[resp'.id].end_month, revenues'[resp'.id].end_month)]_vars

\* C12: a revenue account that has been extended keeps is_extended = TRUE in
\* every later state in which it still exists.
C12_ExtendedSticky ==
    [][\A r \in DOMAIN revenues :
          (revenues[r].is_extended /\ r \in DOMAIN revenues') => revenues'[r].is_extended]_vars

\* An extended revenue account after a later request was served.
C12_Witness ==
    \E r \in DOMAIN revenues :
        /\ revenues[r].is_extended
        /\ resp.op = "createRevenueAccount" /\ resp.status = HTTP_201_CREATED
        /\ resp.id # r

\* C13: every stored revenue account has start_month <= end_month.
C13_StartNotAfterEnd ==
    \A r \in DOMAIN revenues : StrLeq(revenues[r].start_month, revenues[r].end_month)

\* C14: the total regular budget calculateFees answers is the sum of the
\* monthly amounts of exactly those revenue accounts of the building whose
\* period from start to end contains the first four characters of the
\* reference month; an account of 2024..2024 extended to 2026 is counted for
\* "2025-06".
C14_Contains(r, month) ==
    /\ StrLeq(revenues[r].start_month, SubSeq(month, 1, 4))
    /\ StrLeq(SubSeq(month, 1, 4), revenues[r].end_month)
C14_RegularBudget ==
    (resp.op = "calculateFees" /\ resp.status = HTTP_200_OK) =>
        resp.data.totalRegularBudget =
            FromRatio(SumOver(revenues,
                              {r \in DOMAIN revenues :
                                  /\ revenues[r].building = resp.data.buildingId
                                  /\ C14_Contains(r, resp.data.referenceMonth)},
                              "monthly_amount"),
                      CentScale)
C14_Witness ==
    /\ resp.op = "calculateFees" /\ resp.status = HTTP_200_OK
    /\ resp.data.referenceMonth = M2025_06
    /\ resp.data.totalRegularBudget = FromRatio(100, CentScale)
    /\ \E r \in DOMAIN revenues :
          /\ revenues[r].building = resp.data.buildingId
          /\ revenues[r].start_month = Y2024 /\ revenues[r].end_month = Y2026
          /\ revenues[r].is_extended
    /\ \E r \in DOMAIN revenues :
          /\ revenues[r].building # resp.data.buildingId
          /\ C14_Contains(r, M2025_06)

\* C15: the additional charges calculateFees answers are the sum of the total
\* amounts of exactly the charges of the building that are active and whose
\* reference month equals the requested month, and the total monthly
\* collection is the regular budget plus those charges; a charge switched off
\* or moved to another month is left out.
C15_Counted(c) ==
    /\ charges[c].building = resp.data.buildingId
    /\ charges[c].active = TRUE
    /\ charges[c].reference_month = resp.data.referenceMonth
C15_ChargeCents == SumOver(charges, {c \in DOMAIN charges : C15_Counted(c)}, "total_amount")
C15_BudgetCents ==
    SumOver(revenues, BudgetRevenues(resp.data.buildingId, resp.data.referenceMonth),
            "monthly_amount")
C15_AdditionalCharges ==
    (resp.op = "calculateFees" /\ resp.status = HTTP_200_OK) =>
        /\ resp.data.totalAdditionalCharges = FromRatio(C15_ChargeCents, CentScale)
        /\ resp.data.totalMonthlyCollection =
               FromRatio(C15_BudgetCents + C15_ChargeCents, CentScale)
C15_Witness ==
    /\ resp.op = "calculateFees" /\ resp.status = HTTP_200_OK
    /\ resp.data.totalRegularBudget = FromRatio(100, CentScale)
    /\ resp.data.totalAdditionalCharges = FromRatio(50, CentScale)
    /\ resp.data.totalMonthlyCollection = FromRatio(150, CentScale)
    /\ \E c \in DOMAIN charges :
          /\ charges[c].building = resp.data.buildingId
          /\ charges[c].reference_month = resp.data.referenceMonth
          /\ ~charges[c].active

\* C16: for a building with at least one unit, the per-unit total fees that
\* calculateFees answers add up to the total monthly collection, up to one
\* cent per unit.
RECURSIVE SumTotalFee(_, _)
SumTotalFee(fees, n) == IF n = 0 THEN 0 ELSE fees[n].totalFee + SumTotalFee(fees, n - 1)
C16_FeeCents == SumTotalFee(resp.data.unitFees, Len(resp.data.unitFees))
C16_CollectionCents == C15_BudgetCents + C15_ChargeCents
C16_FeeConservation ==
    (resp.op = "calculateFees" /\ resp.status = HTTP_200_OK) =>
        /\ C16_FeeCents - C16_CollectionCents <= Len(resp.data.unitFees)
        /\ C16_CollectionCents - C16_FeeCents <= Len(resp.data.unitFees)

\* C17: for a building with at least one unit, isIdealFractionValid of
\* calculateFees and isValid of validateFractions are true exactly when the
\* sum of the units' ideal fractions is strictly less than 1e-4 away from 1.0.
C17_FractionSum(building) ==
    SumOver(units, {u \in DOMAIN units : units[u].building = building}, "ideal_fraction")
C17_WithinTolerance(building) ==
    /\ C17_FractionSum(building) - FractionScale < 1
    /\ FractionScale - C17_FractionSum(building) < 1
C17_ValidityAgreement ==
    /\ (resp.op = "calculateFees" /\ resp.status = HTTP_200_OK) =>
           (resp.data.isIdealFractionValid <=> C17_WithinTolerance(resp.id))
    /\ (resp.op = "validateFractions" /\ resp.status = HTTP_200_OK
           /\ resp.data.unitCount > 0) =>
           (resp.data.isValid <=> C17_WithinTolerance(resp.id))

\* C18: for a building without units validateFractions succeeds with isValid
\* true, totalFraction 0.0 and unitCount 0, while calculateFees answers not
\* found and carries no fee data.
C18_NoUnits == \A u \in DOMAIN units : units[u].building # resp.id
C18_ZeroUnitPolicy ==
    /\ (resp.op = "validateFractions" /\ resp.status # HTTP_400_BAD_REQUEST /\ C18_NoUnits) =>
           /\ resp.status = HTTP_200_OK
           /\ resp.data.isValid = TRUE
           /\ resp.data.totalFraction = 0
           /\ resp.data.unitCount = 0
    /\ (resp.op = "calculateFees" /\ resp.status # HTTP_400_BAD_REQUEST /\ C18_NoUnits) =>
           /\ resp.status = HTTP_404_NOT_FOUND
           /\ "unitFees" \notin DOMAIN resp.data
           /\ "totalMonthlyCollection" \notin DOMAIN resp.data
C18_Witness ==
    /\ resp.op = "calculateFees" /\ resp.status = HTTP_404_NOT_FOUND
    /\ resp.id = 2 /\ C18_NoUnits
    /\ \E u \in DOMAIN units : units[u].building = 1

\* C19: calculateFees and validateFractions change no unit, revenue account,
\* additional charge, account or transaction, and a call that directly
\* follows a call of the same operation with the same arguments gives the
\* same answer.
C19_SameCall ==
    /\ resp.op = resp'.op
    /\ resp.data.building_id = resp'.data.building_id
    /\ resp.op = "calculateFees" => resp.data.reference_month = resp'.data.reference_month
C20_Window ==
    LET b == expenses[resp.id].building
        rs == {r \in DOMAIN revenues : revenues[r].building = b}
    IN  revenues[CHOOSE r \in rs : \A q \in rs : q <= r]
C20_FiscalFlag ==
    (resp.op = "createExpense" /\ resp.status = HTTP_201_CREATED) =>
        IF \E r \in DOMAIN revenues : revenues[r].building = expenses[resp.id].building
        THEN expenses[resp.id].is_outside_fiscal_period <=>
                 \/ StrLess(expenses[resp.id].reference_month, C20_Window.fiscal_year_start)
                 \/ StrLess(C20_Window.fiscal_year_end, expenses[resp.id].reference_month)
        ELSE ~expenses[resp.id].is_outside_fiscal_period
C20_Witness ==
    /\ resp.op = "createExpense" /\ resp.status = HTTP_201_CREATED
    /\ ~expenses[resp.id].is_outside_fiscal_period
    /\ \E r, q \in DOMAIN revenues :
          /\ r < q
          /\ revenues[r].building = 1 /\ revenues[q].building = 1
          /\ revenues[r].fiscal_year_start = Y2025
          /\ revenues[q].fiscal_year_start = Y2024

\* C21: a report asked for fiscalYearStart <= fiscalYearEnd succeeds, and its
\* monthlyData lists, ascending and without gap or duplicate, exactly the
\* months from fiscalYearStart to the later of fiscalYearEnd and the latest
\* end of the building's revenue accounts, whatever accepted period value
\* those accounts were created or extended with.
C21_Asked ==
    /\ resp.op = "buildMonthlyReport"
    /\ resp.status # HTTP_400_BAD_REQUEST
    /\ StrLeq(Val(resp.data.fiscal_year_start), Val(resp.data.fiscal_year_end))
C21_First == Val(ParseMonth(Val(resp.data.fiscal_year_start)))
C21_Ends ==
    {Val(ParseMonth(Val(resp.data.fiscal_year_end)))} \cup
    {Val(ParseMonth(revenues[r].end_month)) :
        r \in {q \in DOMAIN revenues : revenues[q].building = resp.id}}
C21_Last == CHOOSE e \in C21_Ends : \A f \in C21_Ends : f <= e
C21_ReportWindow ==
    C21_Asked =>
        /\ resp.status = HTTP_200_OK
        /\ Len(resp.data.monthlyData) = C21_Last - C21_First + 1
        /\ \A i \in 1..Len(resp.data.monthlyData) :
              ParseMonth(resp.data.monthlyData[i].month) = Some(C21_First + i - 1)

\* C22: in a report, each month's totalRevenue is the sum of the monthly
\* amounts of exactly the building's revenue accounts whose period from start
\* to end covers the month, and totalPlannedRevenue is the sum of the months'
\* totalRevenue.
C22_Covering(month) ==
    {r \in DOMAIN revenues :
        /\ revenues[r].building = resp.id
        /\ StrLeq(revenues[r].start_month, month)
        /\ StrLeq(month, revenues[r].end_month)}
C22_MonthCents(i) ==
    SumOver(revenues, C22_Covering(resp.data.monthlyData[i].month), "monthly_amount")
RECURSIVE C22_TotalCents(_)
C22_TotalCents(n) == IF n = 0 THEN 0 ELSE C22_MonthCents(n) + C22_TotalCents(n - 1)
C22_ReportRevenue ==
    (resp.op = "buildMonthlyReport" /\ resp.status = HTTP_200_OK) =>
        /\ \A i \in 1..Len(resp.data.monthlyData) :
              resp.data.monthlyData[i].totalRevenue = FromRatio(C22_MonthCents(i), CentScale)
        /\ resp.data.totalPlannedRevenue =
               FromRatio(C22_TotalCents(Len(resp.data.monthlyData)), CentScale)
C22_Witness ==
    /\ resp.op = "buildMonthlyReport" /\ resp.status = HTTP_200_OK
    /\ Len(resp.data.monthlyData) = 3
    /\ resp.data.monthlyData[1].totalRevenue = FromRatio(100, CentScale)
    /\ resp.data.monthlyData[2].totalRevenue = FromRatio(200, CentScale)
    /\ resp.data.monthlyData[3].totalRevenue = FromRatio(100, CentScale)
    /\ resp.data.totalPlannedRevenue = FromRatio(400, CentScale)

\* C23: the monthly data of an account for a year has exactly the twelve
\* entries year-01 to year-12; a month's expectedAmount is the account's
\* expected amount when the month lies within the assembly period, both
\* ends included, and 0 otherwise or when no period is set; its actualAmount
\* is the sum of the account's transactions of that month.
C23_Account == accounts[resp.id]
C23_MonthNumber(i) == IntOf(resp.data.year) * 12 + i - 1
C23_InAssembly(i) ==
    /\ C23_Account.assembly_start_date # None
    /\ C23_Account.assembly_end_date # None
    /\ LET s == Val(C23_Account.assembly_start_date)
           e == Val(C23_Account.assembly_end_date)
       IN  /\ s.year * 12 + s.month - 1 <= C23_MonthNumber(i)
           /\ C23_MonthNumber(i) <= e.year * 12 + e.month - 1
C23_Posted(month) ==
    SumOver(transactions,
            {t \in DOMAIN transactions :
                transactions[t].account_id = resp.id /\ transactions[t].reference_month = month},
            "amount")
C23_MonthlyData ==
    (resp.op = "accountMonthlyData" /\ resp.status = HTTP_200_OK) =>
        /\ Len(resp.data.monthlyData) = 12
        /\ \A i \in 1..12 :
              /\ ParseMonth(resp.data.monthlyData[i].month) = Some(C23_MonthNumber(i))
              /\ Len(resp.data.monthlyData[i].month) = 7
              /\ resp.data.monthlyData[i].expectedAmount =
                     IF C23_InAssembly(i) THEN FloatOfInt(C23_Account.expected_amount)
                     ELSE FZero
              /\ resp.data.monthlyData[i].actualAmount =
                     FloatOfInt(C23_Posted(resp.data.monthlyData[i].month))
C23_Witness ==
    /\ resp.op = "accountMonthlyData" /\ resp.status = HTTP_200_OK
    /\ resp.data.monthlyData[1].actualAmount = FloatOfInt(4)
    /\ resp.data.monthlyData[2].actualAmount = FZero
    /\ resp.data.monthlyData[1].expectedAmount = FloatOfInt(1200)
    /\ resp.data.monthlyData[3].expectedAmount = FloatOfInt(1200)
    /\ resp.data.monthlyData[4].expectedAmount = FZero

\* C24: with completedMonths the number of months of the report whose total
\* expense is not zero, the budget-health flag is produced whenever
\* completedMonths > 0 and totalRevenue > 0: green when the projection
\* totalExpense / completedMonths * totalMonths is at most totalRevenue,
\* yellow when it overruns by at most 20 percent, red otherwise; no flag is
\* produced when completedMonths = 0 or totalRevenue = 0.
C24_Months == resp.data.report.monthlyData
C24_ExpenseCents(i) ==
    SumOver(expenses,
            {e \in DOMAIN expenses :
                expenses[e].building = resp.id
                /\ expenses[e].reference_month = C24_Months[i].month},
            "amount")
RECURSIVE C24_TotalExpense(_)
C24_TotalExpense(n) == IF n = 0 THEN 0 ELSE C24_ExpenseCents(n) + C24_TotalExpense(n - 1)
C24_Completed == Cardinality({i \in 1..Len(C24_Months) : C24_ExpenseCents(i) # 0})
RECURSIVE C24_TotalRevenue(_)
C24_TotalRevenue(n) ==
    IF n = 0 THEN 0
    ELSE SumOver(revenues, C22_Covering(C24_Months[n].month), "monthly_amount")
         + C24_TotalRevenue(n - 1)
C24_Revenue == C24_TotalRevenue(Len(C24_Months))
C24_Expected ==
    IF C24_Completed = 0 \/ C24_Revenue = 0 THEN "none"
    ELSE IF C24_TotalExpense(Len(C24_Months)) * Len(C24_Months)
                <= C24_Revenue * C24_Completed THEN "green"
    ELSE IF 10 * C24_TotalExpense(Len(C24_Months)) * Len(C24_Months)
                <= 12 * C24_Revenue * C24_Completed THEN "yellow"
    ELSE "red"
C24_BudgetFlag ==
    (resp.op = "generateFinancialCharts" /\ resp.status = HTTP_200_OK) =>
        resp.data.flag = C24_Expected

\* C25: the AccountBalance history is append-only: in every step, each
\* snapshot already recorded is still there afterwards with the same reference
\* month, balance and classification (type and name).
C25_AppendOnly ==
    [][\A b \in DOMAIN balances :
           /\ b \in DOMAIN balances'
           /\ balances'[b].reference_month = balances[b].reference_month
           /\ balances'[b].balance = balances[b].balance
           /\ balances'[b].balance_type = balances[b].balance_type
           /\ balances'[b].balance_name = balances[b].balance_name]_vars

\* C26: deleting an account never silently orphans postings: no transaction,
\* revenue account or sub-account refers to an account that is not in the
\* store, and when a deletion has removed an account that had transactions,
\* its response accounts for those transactions.
C26_Dangling ==
    \/ \E t \in DOMAIN transactions : transactions[t].account_id \notin DOMAIN accounts
    \/ \E r \in DOMAIN revenues : revenues[r].account_id \notin DOMAIN accounts
    \/ \E a \in DOMAIN accounts : ~ParentExists(accounts, accounts[a].parent)
C26_NoSilentOrphans ==
    /\ ~C26_Dangling
    /\ (resp.op = "deleteAccount" /\ resp.status = HTTP_200_OK
        /\ resp.prev.transactions # {})
       => /\ "transactions" \in DOMAIN resp.data
          /\ resp.data.transactions = resp.prev.transactions

\* C27: a postTransaction or updateTransaction whose body names an account
\* that does not exist is answered with an error status, and the step leaves
\* every account (so every actual_amount) and every transaction as it was.
C27_NamesMissingAccount ==
    /\ resp'.op \in {"postTransaction", "updateTransaction"}
    /\ Given(resp'.data.account_id)
    /\ Val(resp'.data.account_id) \notin DOMAIN accounts
C28_Raced(q1, q2) ==
    /\ q1 # q2
    /\ reqs[q1].kind = "delete"
    /\ reqs[q2].kind \in {"delete", "update"}
    /\ reqs[q1].tid = reqs[q2].tid
    /\ reqs[q1].tid \in DOMAIN ConcTransactions
    /\ \A q \in {q1, q2} :
           /\ reqs[q].pc = "done"
           /\ ~reqs[q].crashed
           /\ reqs[q].inst = ConcTransactions[reqs[q].tid]
           /\ reqs[q].old_account = ConcAccounts[reqs[q].inst.account_id]
    /\ \A q \in DOMAIN reqs \ {q1, q2} : reqs[q].pc = "idle"
C28_ReversedOnce ==
    \A q1, q2 \in DOMAIN reqs :
        C28_Raced(q1, q2) =>
            LET txn == ConcTransactions[reqs[q1].tid]
            IN  /\ ConcAccounts[txn.account_id].actual_amount
                       - accounts[txn.account_id].actual_amount <= txn.amount
                /\ \A a \in DOMAIN accounts : accounts[a].actual_amount = Posted(a)

\* C29: a save of an expense entry that has completed, whatever revenue
\* requests were served between its queries, did not fail, and when it read a
\* fiscal window it read fiscalStart and fiscalEnd from one and the same
\* revenue account of the entry's building.
C29_OneRevenueAccount ==
    \A q \in DOMAIN reqs :
        (reqs[q].kind = "save" /\ reqs[q].pc = "done") =>
            /\ reqs[q].status = HTTP_201_CREATED
            /\ reqs[q].start_from = reqs[q].end_from

\* C30: for every month of a report that was built and every revenue account
\* of its building, with the fees of that building and month computable, the
\* account is counted in the fees' total regular budget exactly when it is
\* counted in the month's total revenue of the report.
C30_CoverageAgrees ==
    (resp.op = "buildMonthlyReport" /\ resp.status = HTTP_200_OK) =>
        \A i \in DOMAIN resp.data.monthlyData :
            LET month == resp.data.monthlyData[i].month
            IN  FeeResponse(Some(resp.id), Some(month)).status = HTTP_200_OK =>
                    \A r \in RevenuesOf(resp.id) :
                        r \in BudgetRevenues(resp.id, month)
                            <=> r \in MonthRevenues(resp.id, month)

====
